---- MODULE Spec2Model ----
(***************************************************************************)
(* A model of llm_scraper's selector resolution engine                     *)
(* (src/src/llm_scraper/parsers/base.py, class BaseParser).                *)
(*                                                                         *)
(* A BaseParser keeps TWO representations of the page: self.soup, the      *)
(* BeautifulSoup tree that CSS queries run on, and self.tree, the lxml     *)
(* tree that XPath queries run on.  Both are built from the same markup,   *)
(* so the model numbers the elements of the page once (in document order)  *)
(* and keeps, for each representation, the set of elements still in it.    *)
(*                                                                         *)
(* A query is a sequence of tokens, e.g. <<"//", "div", "[byline]">> for   *)
(* //div[@class='byline'] and <<"nav", " ", "a">> for the CSS "nav a".     *)
(*                                                                         *)
(* The module also models the HTML -> Markdown helpers and converter       *)
(* (models/html.py, models/converter.py), the metadata a page yields       *)
(* (get_metadata, Article.from_html), the URL queue of ArticleCache        *)
(* (cache.py) and the character chunker (chunking.py).                     *)
(***************************************************************************)
EXTENDS Integers, Sequences, FiniteSets, TLC

(***************************************************************************)
(* Bounds of the model.                                                    *)
(***************************************************************************)
\* longest fallback chain of a field (ElementSelector.selector as a list)
MaxChain == 3
\* longest global cleanup list (ParserConfig.cleanup)
MaxCleanup == 2
\* most elements at the top of a fragment to convert
MaxFragment == 2
\* most JSON-LD blocks of a page
MaxScripts == 2

(***************************************************************************)
(* The page.  Element i of Page is the i-th element in document order;     *)
(* parent 0 is the document node.  text is the text the element holds      *)
(* directly (before its first child), as tokens; " " is whitespace.  The   *)
(* pages of the model hold no text after an element's end tag.             *)
(*                                                                         *)
(*  1 html                                                                 *)
(*  2   body                                                               *)
(*  3     nav                                                              *)
(*  4       a href=/about            About                                 *)
(*  5     h1 class=title             T                                     *)
(*  6     div class=byline                                                 *)
(*  7       span                     "By: "                                *)
(*  8       a href=/u                U                                     *)
(*  9       a                        V                                     *)
(* 10     div class=content                                                *)
(* 11       p                        Body                                  *)
(* 12       span class=ads           Ad                                    *)
(* 13       a class=tag href=/tag    Tag                                   *)
(***************************************************************************)
NoAttr == ""

El(tag, cls, parent, href, text) ==
    [tag |-> tag, cls |-> cls, parent |-> parent, href |-> href, text |-> text]

Page ==
    << El("html", NoAttr, 0, NoAttr, <<>>),
       El("body", NoAttr, 1, NoAttr, <<>>),
       El("nav",  NoAttr, 2, NoAttr, <<>>),
       El("a",    NoAttr, 3, "/about", <<"About">>),
       El("h1",   "title", 2, NoAttr, <<"T">>),
       El("div",  "byline", 2, NoAttr, <<>>),
       El("span", NoAttr, 6, NoAttr, <<"By:", " ">>),
       El("a",    NoAttr, 6, "/u", <<"U">>),
       El("a",    NoAttr, 6, NoAttr, <<"V">>),
       El("div",  "content", 2, NoAttr, <<>>),
       El("p",    NoAttr, 10, NoAttr, <<"Body">>),
       El("span", "ads", 10, NoAttr, <<"Ad">>),
       El("a",    "tag", 10, "/tag", <<"Tag">>) >>

Nodes == 1..Len(Page)
DocNode == 0

ParentOf(n) == Page[n].parent

RECURSIVE Ancestors(_)
\* the proper ancestors of n among the elements
Ancestors(n) ==
    IF n = DocNode \/ ParentOf(n) = DocNode THEN {}
    ELSE {ParentOf(n)} \cup Ancestors(ParentOf(n))

\* the proper descendants of n (of the document node: every element)
Desc(n) == IF n = DocNode THEN Nodes ELSE {m \in Nodes : n \in Ancestors(m)}
Subtree(n) == {n} \cup Desc(n)
SubtreesOf(S) == UNION {Subtree(n) : n \in S}
ChildrenOf(n) == {m \in Nodes : ParentOf(m) = n}

RECURSIVE SortedSeq(_)
\* a set of elements as a list in document order
SortedSeq(S) ==
    IF S = {} THEN <<>>
    ELSE LET m == CHOOSE x \in S : \A y \in S : x <= y
         IN <<m>> \o SortedSeq(S \ {m})

(***************************************************************************)
(* Query strings, as token sequences.                                      *)
(***************************************************************************)
SlashTokens == {"/", "//"}
ClassTokens == {".title", ".byline", ".content", ".ads", ".tag", ".missing"}
PredTokens  == {"[title]", "[byline]", "[content]", "[ads]", "[tag]", "[missing]"}
NameTokens  == {"html", "body", "nav", "a", "h1", "h2", "div", "span", "p"}
Space == " "
Dot == "."

\* the class a CSS class token (.byline) or an XPath predicate token
\* ([@class='byline']) asks for
ClassName ==
    (".title" :> "title") @@ (".byline" :> "byline") @@ (".content" :> "content") @@
    (".ads" :> "ads") @@ (".tag" :> "tag") @@ (".missing" :> "missing") @@
    ("[title]" :> "title") @@ ("[byline]" :> "byline") @@ ("[content]" :> "content") @@
    ("[ads]" :> "ads") @@ ("[tag]" :> "tag") @@ ("[missing]" :> "missing")

\* the first character of a token, as far as the code looks at it
FirstChar(tok) ==
    IF tok \in SlashTokens THEN "/"
    ELSE IF tok = Dot \/ tok \in ClassTokens THEN "."
    ELSE IF tok = Space THEN " "
    ELSE "other"

RECURSIVE LStrip(_)
LStrip(q) == IF q # <<>> /\ Head(q) = Space THEN LStrip(Tail(q)) ELSE q

RECURSIVE RStrip(_)
RStrip(q) ==
    IF q # <<>> /\ q[Len(q)] = Space THEN RStrip(SubSeq(q, 1, Len(q) - 1)) ELSE q

\* str.strip()
Strip(q) == RStrip(LStrip(q))

\* str.startswith(c)
StartsWith(q, c) == q # <<>> /\ FirstChar(Head(q)) = c

(***************************************************************************)
(* BaseParser._detect_selector_type                                        *)
(***************************************************************************)
CSS == "css"
XPATH == "xpath"
AUTO == "auto"
SelectorType == {CSS, XPATH, AUTO}

\* the rule without query.strip()
DetectWithoutStrip(query, explicit_type) ==
    IF explicit_type # AUTO THEN explicit_type
    ELSE IF StartsWith(query, "/") THEN XPATH
    ELSE CSS

_detect_selector_type(query, explicit_type) ==
    IF explicit_type # AUTO THEN explicit_type
    ELSE IF StartsWith(Strip(query), "/") THEN XPATH
    ELSE CSS

(***************************************************************************)
(* Views.  A query runs on a view of the page: the page itself with the    *)
(* elements still in it (self.soup or self.tree), or a copy of one         *)
(* element's subtree that was serialised and parsed again.  Parsing a      *)
(* fragment again wraps it in <html><body>, the two wrapper elements       *)
(* HtmlWrap and BodyWrap of a copy.                                        *)
(***************************************************************************)
HtmlWrap == -1
BodyWrap == -2
Wrappers == {HtmlWrap, BodyWrap}

PageView(live) == [top |-> DocNode, wrapped |-> FALSE, live |-> live]
CopyView(top, live) == [top |-> top, wrapped |-> TRUE, live |-> live]

TagIn(n) == IF n = HtmlWrap THEN "html" ELSE IF n = BodyWrap THEN "body" ELSE Page[n].tag
ClsIn(n) == IF n \in Wrappers THEN NoAttr ELSE Page[n].cls

ParentIn(v, n) ==
    IF n = HtmlWrap THEN DocNode
    ELSE IF n = BodyWrap THEN HtmlWrap
    ELSE IF v.wrapped /\ n = v.top THEN BodyWrap
    ELSE ParentOf(n)

AllIn(v) == v.live \cup (IF v.wrapped THEN Wrappers ELSE {})

RECURSIVE AncIn(_, _)
\* the proper ancestors of n in the view, the document node included
AncIn(v, n) ==
    IF n = DocNode THEN {}
    ELSE {ParentIn(v, n)} \cup AncIn(v, ParentIn(v, n))

KidsIn(v, S) == {m \in AllIn(v) : ParentIn(v, m) \in S}
DescIn(v, S) == {m \in AllIn(v) : AncIn(v, m) \cap S # {}}

(***************************************************************************)
(* The CSS engine (soupsieve behind select / select_one), for selectors    *)
(* made of compounds  tag | .class | tag.class  joined by the descendant   *)
(* combinator.  Anything else is a selector syntax error.                  *)
(***************************************************************************)
RECURSIVE SplitOnSpace(_, _)
\* the compounds of a selector: cur is the compound being read
SplitOnSpace(q, cur) ==
    IF q = <<>> THEN <<cur>>
    ELSE IF Head(q) = Space THEN <<cur>> \o SplitOnSpace(LStrip(q), <<>>)
    ELSE SplitOnSpace(Tail(q), Append(cur, Head(q)))

CompoundOk(c) ==
    \/ Len(c) = 1 /\ c[1] \in NameTokens \cup ClassTokens
    \/ Len(c) = 2 /\ c[1] \in NameTokens /\ c[2] \in ClassTokens

CompoundMatches(n, c) ==
    \A i \in 1..Len(c) :
        IF c[i] \in NameTokens THEN TagIn(n) = c[i]
        ELSE ClsIn(n) = ClassName[c[i]]

RECURSIVE CssMatch(_, _, _, _)
\* element n matches the first k compounds of comps, n being the subject;
\* the ancestors that count are those of the whole view, not of the scope
CssMatch(v, n, comps, k) ==
    /\ CompoundMatches(n, comps[k])
    /\ k = 1 \/ \E a \in AncIn(v, n) \ {DocNode} : CssMatch(v, a, comps, k - 1)

\* scope.select(query), scope being the view's root (DocNode) or one of
\* its elements: the descendants of scope that match; err when soupsieve
\* raises SelectorSyntaxError
CssSelect(v, scope, query) ==
    LET comps == SplitOnSpace(Strip(query), <<>>)
    IN IF \E i \in 1..Len(comps) : ~CompoundOk(comps[i])
       THEN [err |-> TRUE, nodes |-> {}]
       ELSE [err |-> FALSE,
             nodes |-> {n \in DescIn(v, {scope}) : CssMatch(v, n, comps, Len(comps))}]

(***************************************************************************)
(* The XPath engine (lxml's element.xpath), for location paths made of     *)
(* child (/) and descendant (//) steps  name | name[@class='c'] | .        *)
(* Anything else is an XPath syntax error.                                 *)
(***************************************************************************)
RECURSIVE RemoveSpaces(_)
\* XPath ignores whitespace between tokens
RemoveSpaces(q) ==
    IF q = <<>> THEN <<>>
    ELSE IF Head(q) = Space THEN RemoveSpaces(Tail(q))
    ELSE <<Head(q)>> \o RemoveSpaces(Tail(q))

RECURSIVE XSteps(_, _, _, _, _)
\* the steps of t from position i on, from the context nodes cur, the step
\* at i being reached by `axis`
XSteps(v, cur, t, i, axis) ==
    IF i > Len(t) THEN [err |-> TRUE, nodes |-> {}]
    ELSE LET tok == t[i]
             pred == i + 1 <= Len(t) /\ t[i + 1] \in PredTokens
             cand == IF axis = "child" THEN KidsIn(v, cur) ELSE DescIn(v, cur)
             next == IF tok = Dot
                     THEN IF axis = "child" THEN cur ELSE cur \cup DescIn(v, cur)
                     ELSE {n \in cand :
                              /\ TagIn(n) = tok
                              /\ pred => ClsIn(n) = ClassName[t[i + 1]]}
             j == IF tok # Dot /\ pred THEN i + 2 ELSE i + 1
         IN IF tok # Dot /\ tok \notin NameTokens THEN [err |-> TRUE, nodes |-> {}]
            ELSE IF j > Len(t) THEN [err |-> FALSE, nodes |-> next]
            ELSE IF t[j] = "/" THEN XSteps(v, next, t, j + 1, "child")
            ELSE IF t[j] = "//" THEN XSteps(v, next, t, j + 1, "desc")
            ELSE [err |-> TRUE, nodes |-> {}]

\* scope.xpath(query) from the context element ctx of the view: the element
\* nodes selected; err when lxml raises
XPathEval(v, ctx, query) ==
    LET t == RemoveSpaces(query)
        r == IF t = <<>> THEN [err |-> TRUE, nodes |-> {}]
             ELSE IF t = <<"/">> THEN [err |-> FALSE, nodes |-> {}]
             ELSE IF Head(t) = "/" THEN XSteps(v, {DocNode}, t, 2, "child")
             ELSE IF Head(t) = "//" THEN XSteps(v, {DocNode}, t, 2, "desc")
             ELSE XSteps(v, {ctx}, t, 1, "child")
    IN [err |-> r.err, nodes |-> r.nodes \ {DocNode}]

(***************************************************************************)
(* Configuration: ElementSelector (a field's extraction recipe) and the    *)
(* items of its fallback chain.  An item of the chain is a bare query      *)
(* string (form "str") or a config object (form "dict") with the keys      *)
(* query, selector_type, attribute and parent.  NoQuery stands for a       *)
(* missing or empty query string, NoAttr for a missing attribute name.     *)
(***************************************************************************)
NoQuery == <<>>
BOGUS == "bogus"

StrItem(q) ==
    [form |-> "str", query |-> q, selector_type |-> AUTO,
     attribute |-> NoAttr, parent |-> NoQuery]

DictItem(q, t, a, p) ==
    [form |-> "dict", query |-> q, selector_type |-> t,
     attribute |-> a, parent |-> p]

\* ElementSelector.selector given as one bare string / as a list
StrSelector(q) == [form |-> "str", query |-> q, items |-> <<>>]
ListSelector(items) == [form |-> "list", query |-> NoQuery, items |-> items]

\* kind tells what Python type a value of a ParserConfig field has
ElementSelector(sel, type, attribute, all, cleanup) ==
    [kind |-> "ElementSelector", selector |-> sel, type |-> type,
     attribute |-> attribute, all |-> all, cleanup |-> cleanup]

\* a field of the ParserConfig that holds None, a string or a list of strings
Plain(kind) == [kind |-> kind]

\* the element that is the root of self.tree
RootEl == CHOOSE n \in Nodes : ParentOf(n) = DocNode
\* parent_element = None
NoElement == DocNode

First(seq) == IF seq = <<>> THEN <<>> ELSE <<Head(seq)>>

LogEntry(idx, role, dtype, query, scope) ==
    [idx |-> idx, role |-> role, dtype |-> dtype, query |-> query, scope |-> scope]

(***************************************************************************)
(* BaseParser._extract_with_css / _extract_with_xpath / _find_parent_element *)
(***************************************************************************)
\* soup.select(query) where the code has parent_element.select(query)
CssIgnoresParent(soup, query, parent_element, find_all) ==
    LET r == CssSelect(PageView(soup), DocNode, query)
        all == SortedSeq(r.nodes)
    IN [err |-> r.err, found |-> IF find_all THEN all ELSE First(all)]

\* select_one(query) whatever find_all says
CssAlwaysFirst(soup, query, parent_element, find_all) ==
    LET r == CssSelect(PageView(soup), parent_element, query)
    IN [err |-> r.err, found |-> First(SortedSeq(r.nodes))]

_extract_with_css(soup, query, parent_element, find_all) ==
    LET r == CssSelect(PageView(soup), parent_element, query)
        all == SortedSeq(r.nodes)
    IN [err |-> r.err, found |-> IF find_all THEN all ELSE First(all)]

_extract_with_xpath(tree, query, parent_element, find_all) ==
    LET scope == IF parent_element # NoElement THEN parent_element ELSE RootEl
        r == XPathEval(PageView(tree), scope, query)
        elements == SortedSeq(r.nodes)
    IN IF r.err THEN [err |-> FALSE, found |-> <<>>]
       ELSE [err |-> FALSE, found |-> IF find_all THEN elements ELSE First(elements)]

_find_parent_element(soup, tree, parent_query, selector_type) ==
    LET detected_type == _detect_selector_type(parent_query, selector_type)
    IN IF detected_type = CSS
       THEN LET r == CssSelect(PageView(soup), DocNode, parent_query)
                one == First(SortedSeq(r.nodes))
            IN [err |-> r.err, dtype |-> detected_type,
                el |-> IF one = <<>> THEN NoElement ELSE one[1]]
       ELSE LET results == _extract_with_xpath(tree, parent_query, NoElement, FALSE).found
            IN [err |-> FALSE, dtype |-> detected_type,
                el |-> IF results = <<>> THEN NoElement ELSE results[1]]

(***************************************************************************)
(* BaseParser._extract_element, first half: the fallback chain             *)
(* (base.py lines 241-307).                                                *)
(***************************************************************************)
\* sel_item.get("selector_type", "css"): a config object without a type
\* is taken as CSS
ParseItemDictCss(sel_item) ==
    IF sel_item.form = "dict"
    THEN [sel_query |-> sel_item.query,
          sel_type |-> IF sel_item.selector_type = AUTO THEN CSS
                       ELSE sel_item.selector_type,
          sel_attribute |-> sel_item.attribute, sel_parent |-> sel_item.parent]
    ELSE [sel_query |-> sel_item.query, sel_type |-> AUTO,
          sel_attribute |-> NoAttr, sel_parent |-> NoQuery]

\* lines 250-263: the query, type, attribute and parent of one chain item
ParseItem(sel_item) ==
    IF sel_item.form = "dict"
    THEN [sel_query |-> sel_item.query, sel_type |-> sel_item.selector_type,
          sel_attribute |-> sel_item.attribute, sel_parent |-> sel_item.parent]
    ELSE [sel_query |-> sel_item.query, sel_type |-> AUTO,
          sel_attribute |-> NoAttr, sel_parent |-> NoQuery]

\* the query handed on as it is
RelativeQueryKept(sel_query) == sel_query

\* lines 284-288: an XPath query under a parent is made relative
RelativeQuery(sel_query) ==
    IF StartsWith(sel_query, ".") THEN sel_query
    ELSE IF StartsWith(sel_query, "/") THEN <<Dot>> \o sel_query
    ELSE <<Dot, "//">> \o sel_query

\* lines 291-304: the result r of the engine for one item.  outcome is
\*   "error"     an exception reached the except clause (continue)
\*   "noparent"  the parent query found nothing (continue)
\*   "nomatch"   the query found nothing (next iteration)
\*   "match"     found_elements is not empty (break)
\* log lists the queries handed to an engine, with the type they ran as.
TryOutcome(r, is_lxml, log) ==
    IF r.err
    THEN [outcome |-> "error", found |-> <<>>, is_lxml |-> is_lxml, log |-> log]
    ELSE [outcome |-> IF r.found = <<>> THEN "nomatch" ELSE "match",
          found |-> r.found, is_lxml |-> is_lxml, log |-> log]

\* lines 284-298: the query of the item is run, under the parent p.el if
\* there is one
TryQuery(soup, tree, query, find_all, idx, detected_type, p, plog) ==
    TryOutcome(IF detected_type # CSS
               THEN _extract_with_xpath(tree, query, p.el, find_all)
               ELSE _extract_with_css(soup, query, p.el, find_all),
               detected_type # CSS,
               plog \o <<LogEntry(idx, "query", detected_type, query, p.el)>>)

\* lines 272-298 with the parent lookup p done
TryUnder(soup, tree, it, find_all, idx, detected_type, p) ==
    LET hasParent == it.sel_parent # NoQuery
        is_lxml == detected_type # CSS
        plog == IF hasParent
                THEN <<LogEntry(idx, "parent", p.dtype, it.sel_parent, NoElement)>>
                ELSE <<>>
    IN IF hasParent /\ p.err
       THEN [outcome |-> "error", found |-> <<>>, is_lxml |-> is_lxml, log |-> plog]
       ELSE IF hasParent /\ p.el = NoElement
       THEN [outcome |-> "noparent", found |-> <<>>, is_lxml |-> is_lxml, log |-> plog]
       ELSE TryQuery(soup, tree,
                     IF is_lxml /\ p.el # NoElement THEN RelativeQuery(it.sel_query)
                     ELSE it.sel_query,
                     find_all, idx, detected_type, p, plog)

\* lines 268-298 with the type of the item detected
TryAs(soup, tree, it, find_all, idx, detected_type) ==
    TryUnder(soup, tree, it, find_all, idx, detected_type,
             IF it.sel_parent # NoQuery
             THEN _find_parent_element(soup, tree, it.sel_parent, detected_type)
             ELSE [err |-> FALSE, dtype |-> detected_type, el |-> NoElement])

\* lines 268-304, the body of the try for one item
TryItem(soup, tree, it, find_all, idx) ==
    TryAs(soup, tree, it, find_all, idx,
          _detect_selector_type(it.sel_query, it.sel_type))

\* what the chain loop hands on: the working set `elements` (element,
\* the item's own attribute, is_lxml), and a record of what it did
ChainResult(elements, log, outcomes, raised) ==
    [elements |-> elements, log |-> log, outcomes |-> outcomes, raised |-> raised]

RECURSIVE ChainLoopNoBreak(_, _, _, _, _, _, _)
\* the loop without its break: a later item that matches replaces the
\* working set of an earlier one
ChainLoopNoBreak(soup, tree, selectors_list, i, find_all, log, outcomes) ==
    IF i > Len(selectors_list) THEN ChainResult(<<>>, log, outcomes, FALSE)
    ELSE LET it == ParseItem(selectors_list[i])
         IN IF it.sel_type \notin SelectorType
            THEN ChainResult(<<>>, log, Append(outcomes, "raise"), TRUE)
            ELSE IF it.sel_query = NoQuery
            THEN ChainLoopNoBreak(soup, tree, selectors_list, i + 1, find_all, log,
                                  Append(outcomes, "skip"))
            ELSE LET r == TryItem(soup, tree, it, find_all, i)
                     rest == ChainLoopNoBreak(soup, tree, selectors_list, i + 1, find_all,
                                              log \o r.log, Append(outcomes, r.outcome))
                     mine == [k \in 1..Len(r.found) |->
                                [node |-> r.found[k], attribute |-> it.sel_attribute,
                                 is_lxml |-> r.is_lxml]]
                 IN IF r.outcome = "match" /\ rest.elements = <<>> /\ ~rest.raised
                    THEN ChainResult(mine, rest.log, rest.outcomes, FALSE)
                    ELSE rest

RECURSIVE ChainLoopErrorAborts(_, _, _, _, _, _, _)
\* the loop without its try/except and without the `continue` of a parent
\* that is not found: such an item ends the resolution
ChainLoopErrorAborts(soup, tree, selectors_list, i, find_all, log, outcomes) ==
    IF i > Len(selectors_list) THEN ChainResult(<<>>, log, outcomes, FALSE)
    ELSE LET it == ParseItem(selectors_list[i])
         IN IF it.sel_type \notin SelectorType
            THEN ChainResult(<<>>, log, Append(outcomes, "raise"), TRUE)
            ELSE IF it.sel_query = NoQuery
            THEN ChainLoopErrorAborts(soup, tree, selectors_list, i + 1, find_all, log,
                                      Append(outcomes, "skip"))
            ELSE LET r == TryItem(soup, tree, it, find_all, i)
                 IN IF r.outcome = "match"
                    THEN ChainResult(
                           [k \in 1..Len(r.found) |->
                              [node |-> r.found[k], attribute |-> it.sel_attribute,
                               is_lxml |-> r.is_lxml]],
                           log \o r.log, Append(outcomes, "match"), FALSE)
                    ELSE IF r.outcome = "error"
                    THEN ChainResult(<<>>, log \o r.log, Append(outcomes, "error"), TRUE)
                    ELSE IF r.outcome = "noparent"
                    THEN ChainResult(<<>>, log \o r.log, Append(outcomes, "noparent"),
                                     FALSE)
                    ELSE ChainLoopErrorAborts(soup, tree, selectors_list, i + 1, find_all,
                                              log \o r.log, Append(outcomes, r.outcome))

RECURSIVE ChainLoop(_, _, _, _, _, _, _)
\* lines 299-304: item i gave r; break on a match, else go on with item i+1
ChainNext(soup, tree, selectors_list, i, find_all, log, outcomes, it, r) ==
    IF r.outcome = "match"
    THEN ChainResult([k \in 1..Len(r.found) |->
                        [node |-> r.found[k], attribute |-> it.sel_attribute,
                         is_lxml |-> r.is_lxml]],
                     log \o r.log, Append(outcomes, "match"), FALSE)
    ELSE ChainLoop(soup, tree, selectors_list, i + 1, find_all,
                   log \o r.log, Append(outcomes, r.outcome))

\* lines 250-298: one iteration, `it` being item i as parsed
ChainStep(soup, tree, selectors_list, i, find_all, log, outcomes, it) ==
    IF it.sel_type \notin SelectorType
    \* SelectorType(...) raises ValueError, outside the try
    THEN ChainResult(<<>>, log, Append(outcomes, "raise"), TRUE)
    ELSE IF it.sel_query = NoQuery
    THEN ChainLoop(soup, tree, selectors_list, i + 1, find_all, log,
                   Append(outcomes, "skip"))
    ELSE ChainNext(soup, tree, selectors_list, i, find_all, log, outcomes, it,
                   TryItem(soup, tree, it, find_all, i))

\* lines 248-304: the loop over selectors_list, from item i on
ChainLoop(soup, tree, selectors_list, i, find_all, log, outcomes) ==
    IF i > Len(selectors_list) THEN ChainResult(<<>>, log, outcomes, FALSE)
    ELSE ChainStep(soup, tree, selectors_list, i, find_all, log, outcomes,
                   ParseItem(selectors_list[i]))

(***************************************************************************)
(* Values.  An extracted string is modelled by what it was made from:      *)
(*   kind "text"  the text tokens                                          *)
(*   kind "html"  the markup of element `node` with the elements `live`    *)
(*                under it, inside <html><body> when `wrapped`             *)
(*   kind "attr"  the attribute value, joined to `base` when resolved      *)
(*                against the base URL                                     *)
(*   kind "none"  None                                                     *)
(***************************************************************************)
NoUrl == ""

Value(kind, toks, node, live, wrapped, base) ==
    [kind |-> kind, toks |-> toks, node |-> node, live |-> live,
     wrapped |-> wrapped, base |-> base]

None == Value("none", <<>>, DocNode, {}, FALSE, NoUrl)

\* Python truthiness of an extracted value (`if value:`)
Truthy(value) ==
    /\ value.kind # "none"
    /\ value.kind = "text" => value.toks # <<>>

\* element.get(attribute)
Attr(n, attribute) == IF attribute = "href" THEN Page[n].href ELSE NoAttr

RECURSIVE Concat(_, _)
\* the text nodes of the listed elements joined; each one stripped first,
\* and dropped when empty, if strip_each
Concat(nodes, strip_each) ==
    IF nodes = <<>> THEN <<>>
    ELSE (IF strip_each THEN Strip(Page[Head(nodes)].text) ELSE Page[Head(nodes)].text)
         \o Concat(Tail(nodes), strip_each)

\* Tag.get_text(strip=True)
GetText(live) == Concat(SortedSeq(live), TRUE)
\* HtmlElement.text_content().strip()
TextContent(live) == Strip(Concat(SortedSeq(live), FALSE))

(***************************************************************************)
(* The element a value is read from (`el` in lines 310-354):               *)
(*   node     the matched element                                          *)
(*   wrapped  el is no longer the matched element but the <html> root of   *)
(*            a parsed copy of it (BeautifulSoup(html_str, 'lxml').find()) *)
(*   live     the elements of the copy, when wrapped                       *)
(* An element that is not wrapped lives in self.soup (is_lxml false) or    *)
(* in self.tree (is_lxml true).                                            *)
(***************************************************************************)
Elem(node, wrapped, live) == [node |-> node, wrapped |-> wrapped, live |-> live]

\* the elements under el (el included) at the time a value is read
LiveOf(soup, tree, el, is_lxml) ==
    IF el.wrapped THEN el.live
    ELSE IF is_lxml THEN tree \cap Subtree(el.node)
    ELSE soup \cap Subtree(el.node)

\* a matched soup element that an earlier cleanup of the same call
\* decomposed: it holds nothing any more
Decomposed(soup, el, is_lxml) == ~el.wrapped /\ ~is_lxml /\ el.node \notin soup

\* BaseParser._extract_value_from_element (lines 176-225)
_extract_value_from_element(soup, tree, el, attribute, extract_type, is_lxml, base_url) ==
    LET live == LiveOf(soup, tree, el, is_lxml)
    IN IF Decomposed(soup, el, is_lxml) THEN None
       ELSE IF attribute # NoAttr
       THEN LET attr_val == IF el.wrapped THEN NoAttr ELSE Attr(el.node, attribute)
            IN IF attr_val # NoAttr
               THEN Value("attr", <<attr_val>>, DocNode, {}, FALSE,
                          IF attribute = "href" THEN base_url ELSE NoUrl)
               ELSE None
       ELSE IF extract_type = "html"
       THEN Value("html", <<>>, el.node, live, el.wrapped, NoUrl)
       ELSE Value("text", IF is_lxml THEN TextContent(live) ELSE GetText(live),
                  DocNode, {}, FALSE, NoUrl)

(***************************************************************************)
(* BaseParser._extract_element, second half: per-field cleanup and value   *)
(* extraction (base.py lines 309-362).                                     *)
(***************************************************************************)
\* what is left of a copy after the elements `hit` were taken out of it;
\* without its <body> a copy holds nothing
Prune(live, hit) ==
    IF BodyWrap \in hit THEN {} ELSE live \ SubtreesOf(hit \cap Nodes)

\* lines 323-344, one cleanup selector applied to el.  A CSS selector runs
\* on el as it is: on the matched element inside self.soup when el is not
\* a copy, so that decompose() takes the elements out of self.soup.  An
\* XPath selector runs on a new lxml tree parsed from str(el), and el
\* becomes the <html> root of the copy parsed from that tree.
CleanupOne(soup, el, is_lxml, cleanup_sel) ==
    LET cleanup_type == _detect_selector_type(cleanup_sel, AUTO)
    IN IF Decomposed(soup, el, is_lxml) THEN [soup |-> soup, el |-> el]
       ELSE IF cleanup_type = CSS
       THEN IF el.wrapped
            THEN LET r == CssSelect(CopyView(el.node, el.live), HtmlWrap, cleanup_sel)
                 IN IF r.err THEN [soup |-> soup, el |-> el]
                    ELSE [soup |-> soup,
                          el |-> Elem(el.node, TRUE, Prune(el.live, r.nodes))]
            ELSE LET r == CssSelect(PageView(soup), el.node, cleanup_sel)
                 IN IF r.err THEN [soup |-> soup, el |-> el]
                    ELSE [soup |-> soup \ SubtreesOf(r.nodes), el |-> el]
       ELSE LET src == IF el.wrapped THEN el.live ELSE soup \cap Subtree(el.node)
                \* lxml_html.fromstring(str(el)): the <html> root when el is
                \* a whole document, the element itself when el is a fragment
                r == XPathEval(CopyView(el.node, src),
                               IF el.wrapped THEN HtmlWrap ELSE el.node, cleanup_sel)
                \* getparent() is None for the root of the document only
                hit == r.nodes \ {HtmlWrap}
            IN IF r.err THEN [soup |-> soup, el |-> el]
               ELSE [soup |-> soup,
                     el |-> Elem(el.node, TRUE,
                                 IF el.wrapped THEN Prune(src, hit)
                                 \* etree.tostring(tree) serialises the
                                 \* fragment's element, removed from its
                                 \* parent or not
                                 ELSE src \ SubtreesOf((hit \cap Nodes) \ {el.node}))]

RECURSIVE CleanupAll(_, _, _, _, _, _)
\* selector i left c; go on with selector i+1
CleanupNext(c, is_lxml, cleanup, i, log) ==
    CleanupAll(c.soup, c.el, is_lxml, cleanup, i + 1, log)

\* lines 323-344: the loop over selector.cleanup, from selector i on; log
\* lists the cleanup queries with the type each was detected as
CleanupAll(soup, el, is_lxml, cleanup, i, log) ==
    IF i > Len(cleanup) THEN [soup |-> soup, el |-> el, log |-> log]
    ELSE CleanupNext(CleanupOne(soup, el, is_lxml, cleanup[i]), is_lxml, cleanup, i,
                     Append(log, LogEntry(i, "cleanup",
                                          _detect_selector_type(cleanup[i], AUTO),
                                          cleanup[i], el.node)))

\* lines 312-320: the element the cleanup starts from; an lxml element is
\* serialised and parsed again, and el becomes the <html> root of the copy
CleanupStart(tree, e) ==
    IF e.is_lxml THEN Elem(e.node, TRUE, tree \cap Subtree(e.node))
    ELSE Elem(e.node, FALSE, {})

RECURSIVE ExtractLoop(_, _, _, _, _, _, _, _)
\* the loop without the test of line 356: every value is kept, None too
ExtractKeepAlways(soup, tree, elements, k, selector, base_url, results, log, value) ==
    ExtractLoop(soup, tree, elements, k + 1, selector, base_url,
                Append(results, value), log)

\* lines 356-357: the value of element k is kept if it is truthy
ExtractKeep(soup, tree, elements, k, selector, base_url, results, log, value) ==
    ExtractLoop(soup, tree, elements, k + 1, selector, base_url,
                IF Truthy(value) THEN Append(results, value) ELSE results, log)

\* lines 346-354: the value of element k, c being what its cleanup left
ExtractValue(tree, elements, k, selector, base_url, results, log, c) ==
    ExtractKeep(c.soup, tree, elements, k, selector, base_url, results, log \o c.log,
                _extract_value_from_element(
                    c.soup, tree, c.el,
                    \* attr_to_extract
                    IF elements[k].attribute # NoAttr THEN elements[k].attribute
                    ELSE selector.attribute,
                    selector.type,
                    \* is_lxml
                    elements[k].is_lxml /\ selector.cleanup = <<>>,
                    base_url))

\* lines 310-357: the loop over the working set, from element k on
ExtractLoop(soup, tree, elements, k, selector, base_url, results, log) ==
    IF k > Len(elements) THEN [soup |-> soup, results |-> results, log |-> log]
    ELSE ExtractValue(tree, elements, k, selector, base_url, results, log,
                      IF selector.cleanup # <<>>
                      THEN CleanupAll(soup, CleanupStart(tree, elements[k]), FALSE,
                                      selector.cleanup, 1, <<>>)
                      ELSE [soup |-> soup, el |-> Elem(elements[k].node, FALSE, {}),
                            log |-> <<>>])

(***************************************************************************)
(* The result of _extract_element: None, a string, or a list of strings.   *)
(***************************************************************************)
NoResult == [none |-> TRUE, is_list |-> FALSE, values |-> <<>>]
Scalar(value) == [none |-> FALSE, is_list |-> FALSE, values |-> <<value>>]
List(values) == [none |-> FALSE, is_list |-> TRUE, values |-> values]

\* what one call of _extract_element did: its result, whether it raised,
\* self.soup before and after it, the working set, the queries run and
\* the outcome of each chain item tried
Call(result, raised, before, soup, chain, cleanup_log) ==
    [result |-> result, raised |-> raised, before |-> before, soup |-> soup,
     elements |-> chain.elements, log |-> chain.log \o cleanup_log,
     outcomes |-> chain.outcomes]

\* lines 359-362: x is what the loop over the working set left
Returned(soup, selector, chain, x) ==
    IF x.results = <<>> THEN Call(NoResult, FALSE, soup, x.soup, chain, x.log)
    ELSE Call(IF selector.all THEN List(x.results) ELSE Scalar(x.results[1]),
              FALSE, soup, x.soup, chain, x.log)

\* lines 306-362: chain is what the fallback chain left
Resolved(soup, tree, selector, base_url, chain) ==
    IF chain.raised THEN Call(NoResult, TRUE, soup, soup, chain, <<>>)
    ELSE IF chain.elements = <<>> THEN Call(NoResult, FALSE, soup, soup, chain, <<>>)
    ELSE Returned(soup, selector, chain,
                  ExtractLoop(soup, tree, chain.elements, 1, selector, base_url,
                              <<>>, <<>>))

\* BaseParser._extract_element (lines 227-362)
_extract_element(soup, tree, selector, base_url) ==
    LET sel == selector.selector
        empty == IF sel.form = "list" THEN sel.items = <<>> ELSE sel.query = NoQuery
        selectors_list == IF sel.form = "list" THEN sel.items ELSE <<StrItem(sel.query)>>
    IN IF empty
       THEN Call(NoResult, FALSE, soup, soup, ChainResult(<<>>, <<>>, <<>>, FALSE), <<>>)
       ELSE Resolved(soup, tree, selector, base_url,
                     ChainLoop(soup, tree, selectors_list, 1, selector.all, <<>>, <<>>))

(***************************************************************************)
(* BaseParser._run_cleanup (lines 40-66): the global cleanup, run by the   *)
(* constructor.  A CSS selector takes elements out of self.soup only; an   *)
(* XPath selector takes them out of self.tree and then builds self.soup    *)
(* again from self.tree.                                                   *)
(***************************************************************************)
RECURSIVE _run_cleanup(_, _, _, _, _)
\* the loop from selector i on; hits gathers the elements that a cleanup
\* selector matched, with all they hold
_run_cleanup(soup, tree, cleanup, i, hits) ==
    IF i > Len(cleanup) THEN [soup |-> soup, tree |-> tree, hits |-> hits]
    ELSE LET selector == cleanup[i]
             sel_type == _detect_selector_type(selector, AUTO)
         IN IF sel_type = CSS
            THEN LET r == CssSelect(PageView(soup), DocNode, selector)
                 IN IF r.err THEN _run_cleanup(soup, tree, cleanup, i + 1, hits)
                    ELSE _run_cleanup(soup \ SubtreesOf(r.nodes), tree, cleanup, i + 1,
                                      hits \cup SubtreesOf(r.nodes))
            ELSE LET r == XPathEval(PageView(tree), RootEl, selector)
                     \* the root element has no parent and stays
                     gone == SubtreesOf(r.nodes \ {RootEl})
                 IN IF r.err THEN _run_cleanup(soup, tree, cleanup, i + 1, hits)
                    ELSE _run_cleanup(tree \ gone, tree \ gone, cleanup, i + 1,
                                      hits \cup gone)

(***************************************************************************)
(* BaseParser.parse (lines 364-380) over ParserConfig.model_fields, the    *)
(* fields of ParserConfig in the order the class declares them             *)
(* (models/selector.py lines 424-443).                                     *)
(***************************************************************************)
ModelFields ==
    << "domain", "lang", "type", "title", "description", "content", "authors",
       "date_published", "date_modified", "tags", "topics", "follow_urls",
       "cleanup", "sitemaps", "rss_feeds" >>

\* the fields declared as ElementSelector
SelectorFields ==
    {"title", "description", "content", "authors", "date_published",
     "date_modified", "tags", "topics", "follow_urls"}

\* a key that parsed_data does not have
NoKey == [key |-> FALSE]

RECURSIVE ParseLoop(_, _, _, _, _, _, _)
\* parse() without its `if value:`: whatever the call returned is stored
ParseStoreAlways(tree, cfg, base_url, i, parsed_data, calls, c) ==
    IF c.raised
    THEN [soup |-> c.soup, parsed_data |-> parsed_data,
          calls |-> Append(calls, [field |-> ModelFields[i],
                                   selector |-> cfg[ModelFields[i]], call |-> c]),
          raised |-> TRUE]
    ELSE ParseLoop(c.soup, tree, cfg, base_url, i + 1,
                   [parsed_data EXCEPT ![ModelFields[i]] = c.result],
                   Append(calls, [field |-> ModelFields[i],
                                  selector |-> cfg[ModelFields[i]], call |-> c]))

\* lines 377-379: c is the call made for field i
ParseStore(tree, cfg, base_url, i, parsed_data, calls, c) ==
    IF c.raised
    THEN [soup |-> c.soup, parsed_data |-> parsed_data,
          calls |-> Append(calls, [field |-> ModelFields[i],
                                   selector |-> cfg[ModelFields[i]], call |-> c]),
          raised |-> TRUE]
    ELSE ParseLoop(c.soup, tree, cfg, base_url, i + 1,
                   IF c.result.none THEN parsed_data
                   ELSE [parsed_data EXCEPT ![ModelFields[i]] = c.result],
                   Append(calls, [field |-> ModelFields[i],
                                  selector |-> cfg[ModelFields[i]], call |-> c]))

\* the loop from field i of ModelFields on.  parsed_data maps a field to
\* its value, NoKey standing for a key that is not there; calls lists
\* the calls of _extract_element made, in order.
ParseLoop(soup, tree, cfg, base_url, i, parsed_data, calls) ==
    IF i > Len(ModelFields)
    THEN [soup |-> soup, parsed_data |-> parsed_data, calls |-> calls, raised |-> FALSE]
    ELSE IF ModelFields[i] = "cleanup" \/ cfg[ModelFields[i]].kind # "ElementSelector"
    THEN ParseLoop(soup, tree, cfg, base_url, i + 1, parsed_data, calls)
    ELSE ParseStore(tree, cfg, base_url, i, parsed_data, calls,
                    _extract_element(soup, tree, cfg[ModelFields[i]], base_url))

(***************************************************************************)
(* HTML -> Markdown (models/html.py, models/converter.py).                 *)
(*                                                                         *)
(* A string is a sequence of tokens: the whitespace characters " ", "\n",  *)
(* "\t" and "\r", the placeholders BreakTag and TabTag, punctuation of the *)
(* markup, and words.  A word holds no whitespace.  A URL is a sequence of *)
(* tokens whose first token is what it starts with ("http", "javascript",  *)
(* "/", "#", ...).  A node of the parsed fragment is a text node           *)
(* (NavigableString) or an element (Tag) with its attributes and children. *)
(***************************************************************************)
BreakTag == "<{break}>"
\* GRAVE_ACCENT * 3, the code fence
Fence == "<fence>"
TabTag == "<{tab}>"
Whitespace == {" ", "\n", "\t", "\r"}

RECURSIVE PyLStrip(_)
PyLStrip(s) == IF s # <<>> /\ Head(s) \in Whitespace THEN PyLStrip(Tail(s)) ELSE s

RECURSIVE PyRStrip(_)
PyRStrip(s) ==
    IF s # <<>> /\ s[Len(s)] \in Whitespace THEN PyRStrip(SubSeq(s, 1, Len(s) - 1)) ELSE s

\* str.strip() with no argument: all leading and trailing whitespace
PyStrip(s) == PyRStrip(PyLStrip(s))

\* str.replace(old, new) for one-token old and new
Replace(s, old, new) == [i \in 1..Len(s) |-> IF s[i] = old THEN new ELSE s[i]]

\* HTMLHelper.decode_tag (html.py lines 79-90)
decode_tag(text) == Replace(Replace(text, BreakTag, "\n"), TabTag, "\t")

\* tag.attrs; <<>> is a missing (None) or empty attribute value
NoAttrs ==
    [href |-> <<>>, src |-> <<>>, alt |-> <<>>, title |-> <<>>,
     data_original |-> <<>>, data_src |-> <<>>, srcset |-> <<>>]

NavigableString(s) == [name |-> "#text", attrs |-> NoAttrs, children |-> <<>>, text |-> s]
Tag(name, attrs, children) ==
    [name |-> name, attrs |-> attrs, children |-> children, text |-> <<>>]

\* str.startswith(prefix) for a URL
UrlStartsWith(url, prefix) ==
    /\ url # <<>>
    /\ \/ Head(url) = prefix
       \/ prefix = "http" /\ Head(url) = "https"

\* the classes html.py defines
HtmlHelpers ==
    {"Attr", "HTMLHelper", "NoEndHelper", "Head", "HeadMeta", "HeadLink",
     "HeadTitle", "Body", "A", "Abbr", "Address", "Article", "Aside", "Audio",
     "Caption", "Center", "Code", "DD", "Del", "Details", "Div", "DL", "DT",
     "Embed", "Figcaption", "H1", "H2", "H3", "H4", "H5", "H6", "HR", "Img",
     "Main", "Menu", "Mark", "Nav", "P", "Pre", "Option", "S", "Section",
     "Select", "Space", "Small", "Span", "Ins", "Cite", "Strong", "Em",
     "Italic", "Strike", "BTag", "U", "Sub", "Summary", "Sup", "SVG", "TH",
     "TD", "ColGroup", "TR", "THead", "TBody", "TFoot", "Table", "Time", "OL",
     "UL", "LI", "VAR", "Video", "Picture", "Source", "Figure", "Blockquote",
     "BR", "Script", "NoScript", "IFrame", "Button", "Label", "TextArea",
     "Input", "Form"}

\* _md_prefix of a helper class ("" unless the class sets it)
_md_prefix(cls) ==
    CASE cls = "Code" -> <<BreakTag, Fence>>
      [] cls = "Del" -> <<"~">>
      [] cls = "Div" -> <<BreakTag>>
      [] cls = "H1" -> <<BreakTag, "#", " ">>
      [] cls = "H2" -> <<BreakTag, "##", " ">>
      [] cls = "H3" -> <<BreakTag, "###", " ">>
      [] cls = "H4" -> <<BreakTag, "####", " ">>
      [] cls = "H5" -> <<BreakTag, "#####", " ">>
      [] cls = "H6" -> <<BreakTag, "######", " ">>
      [] cls = "HR" -> <<BreakTag, "---", BreakTag>>
      [] cls = "Img" -> <<BreakTag, BreakTag>>
      [] cls = "P" -> <<BreakTag, BreakTag>>
      [] cls = "Pre" -> <<Fence>>
      [] cls = "S" -> <<"~~">>
      [] cls = "Span" -> <<" ">>
      [] cls \in {"Strong", "BTag"} -> <<" ", "**">>
      [] cls \in {"Em", "Italic"} -> <<" ", "_">>
      [] cls = "Strike" -> <<"~">>
      [] cls \in {"TH", "TD"} -> <<" ">>
      [] cls = "TR" -> <<BreakTag, "|", " ">>
      [] cls = "THead" -> <<BreakTag>>
      [] cls = "Table" -> <<BreakTag>>
      [] cls = "UL" -> <<BreakTag>>
      [] cls = "LI" -> <<"-", " ">>
      [] cls = "Blockquote" -> <<BreakTag, ">", " ">>
      [] cls = "BR" -> <<BreakTag>>
      [] OTHER -> <<>>

\* _md_suffix of a helper class
_md_suffix(cls) ==
    CASE cls = "Code" -> <<Fence, BreakTag>>
      [] cls = "Del" -> <<"~">>
      [] cls = "Div" -> <<BreakTag>>
      [] cls \in {"H1", "H2", "H3", "H4", "H5", "H6"} -> <<BreakTag>>
      [] cls = "Img" -> <<BreakTag>>
      [] cls = "P" -> <<BreakTag, BreakTag>>
      [] cls = "Pre" -> <<Fence>>
      [] cls = "S" -> <<"~~">>
      [] cls = "Span" -> <<" ">>
      [] cls \in {"Strong", "BTag"} -> <<"**", " ">>
      [] cls \in {"Em", "Italic"} -> <<"_", " ">>
      [] cls = "Strike" -> <<"~">>
      [] cls \in {"TH", "TD"} -> <<" ", "|">>
      [] cls = "TBody" -> <<BreakTag, BreakTag>>
      [] cls = "Table" -> <<BreakTag>>
      [] cls = "OL" -> <<BreakTag, BreakTag>>
      [] cls = "UL" -> <<BreakTag, BreakTag>>
      [] cls = "LI" -> <<BreakTag>>
      [] OTHER -> <<>>

\* HTMLHelper.to_markdown (html.py lines 66-72)
HTMLHelper_to_markdown(cls, text) == _md_prefix(cls) \o PyStrip(text) \o _md_suffix(cls)

\* A.to_markdown (html.py lines 160-169)
NotStartswith == <<"javascript", "/", "#">>
\* A.to_markdown without the test of lines 165-166 on what the href starts with
ALinksAnyHref(attrs, text) ==
    IF PyStrip(text) # <<>>
    THEN IF attrs.href # <<>>
         THEN <<" ", "[">> \o PyStrip(text) \o <<"](">> \o attrs.href \o <<")">>
         ELSE PyStrip(text)
    ELSE <<>>

A_to_markdown(attrs, text) ==
    IF PyStrip(text) # <<>>
    THEN IF /\ attrs.href # <<>>
            /\ ~ \E i \in 1..Len(NotStartswith) : UrlStartsWith(attrs.href, NotStartswith[i])
         THEN <<" ", "[">> \o PyStrip(text) \o <<"](">> \o attrs.href \o <<")">>
         ELSE PyStrip(text)
    ELSE <<>>

\* Img.src (html.py lines 321-342)
_safe_types == {".webp", ".jpg", ".png", ".jpeg"}
_lazy_css_attrs == <<"data_original", "data_original", "data_src", "srcset">>

RECURSIVE LazySrc(_, _)
LazySrc(attrs, i) ==
    IF UrlStartsWith(attrs[_lazy_css_attrs[i]], "http") \/ i = Len(_lazy_css_attrs)
    THEN attrs[_lazy_css_attrs[i]]
    ELSE LazySrc(attrs, i + 1)

ImgSrc(attrs) ==
    LET src_val == IF UrlStartsWith(attrs.src, "http") THEN attrs.src
                   ELSE LazySrc(attrs, 1)
    IN IF /\ UrlStartsWith(src_val, "http")
          /\ \E i \in 1..Len(src_val) : src_val[i] \in _safe_types
       THEN src_val
       ELSE <<>>

\* Img.to_markdown (html.py lines 352-366)
Img_to_markdown(attrs) ==
    LET image_src == ImgSrc(attrs)
    IN IF image_src = <<>> THEN _md_prefix("Img")
       ELSE _md_prefix("Img")
            \o (IF attrs.title # <<>> /\ attrs.alt # <<>>
                THEN <<"![">> \o attrs.alt \o <<"](">> \o image_src
                     \o <<" ", "\"">> \o attrs.title \o <<"\"", ")">>
                ELSE IF attrs.alt # <<>>
                THEN <<"![">> \o attrs.alt \o <<"](">> \o image_src \o <<")">>
                ELSE <<"![", "](">> \o image_src \o <<")">>)
            \o _md_suffix("Img")

\* LI.to_markdown (html.py lines 642-645):
\* re.sub(r"^-\s+(<{break}>)+\s+", "- ", md).strip()
RECURSIVE SkipWhile(_, _)
SkipWhile(s, toks) == IF s # <<>> /\ Head(s) \in toks THEN SkipWhile(Tail(s), toks) ELSE s

LI_to_markdown(text) ==
    LET md == HTMLHelper_to_markdown("LI", text)
        ws == SkipWhile(Tail(md), Whitespace)
        br == SkipWhile(ws, {BreakTag})
        rest == SkipWhile(br, Whitespace)
    IN PyStrip(IF Len(ws) < Len(md) - 1 /\ Len(br) < Len(ws) /\ Len(rest) < Len(br)
               THEN <<"-", " ">> \o rest
               ELSE md)

\* helper_class(tag=tag, processed_text=text).to_markdown()
to_markdown(cls, tag, text) ==
    CASE cls = "A" -> A_to_markdown(tag.attrs, text)
      [] cls = "Img" -> Img_to_markdown(tag.attrs)
      [] cls = "LI" -> LI_to_markdown(text)
      [] cls = "BR" -> _md_prefix("BR")
      [] cls \in {"Script", "NoScript", "IFrame"} -> <<>>
      [] OTHER -> HTMLHelper_to_markdown(cls, text)

(***************************************************************************)
(* models/converter.py.  TAG_HELPER_MAP is built when the module is        *)
(* imported: each entry reads an attribute of models/html.py, and reading  *)
(* an attribute the module does not have raises AttributeError.            *)
(***************************************************************************)
TAG_HELPER_MAP ==
    ("p" :> "P") @@ ("div" :> "Div") @@ ("span" :> "Span") @@ ("a" :> "A") @@
    ("img" :> "Img") @@ ("br" :> "BR") @@ ("hr" :> "HR") @@
    ("h1" :> "H1") @@ ("h2" :> "H2") @@ ("h3" :> "H3") @@
    ("h4" :> "H4") @@ ("h5" :> "H5") @@ ("h6" :> "H6") @@
    ("strong" :> "Strong") @@ ("b" :> "BTag") @@ ("em" :> "Em") @@ ("i" :> "Italic") @@
    ("u" :> "U") @@ ("del" :> "Del") @@ ("s" :> "S") @@ ("strike" :> "Strike") @@
    ("code" :> "Code") @@ ("pre" :> "Pre") @@ ("blockquote" :> "Blockquote") @@
    ("ul" :> "UL") @@ ("ol" :> "OL") @@ ("li" :> "LI") @@
    ("table" :> "Table") @@ ("thead" :> "THead") @@ ("tbody" :> "TBody") @@
    ("tfoot" :> "TFoot") @@ ("tr" :> "TR") @@ ("th" :> "TH") @@ ("td" :> "TD") @@
    ("caption" :> "Caption") @@
    ("script" :> "Script") @@ ("style" :> "Style") @@ ("noscript" :> "NoScript") @@
    ("iframe" :> "IFrame") @@ ("head" :> "Head")

\* importing llm_scraper.models.converter succeeds
ImportConverter == \A tag \in DOMAIN TAG_HELPER_MAP : TAG_HELPER_MAP[tag] \in HtmlHelpers

\* MarkdownConverter.process_node (converter.py lines 63-86)
RECURSIVE process_node(_)
RECURSIVE ProcessChildren(_, _)

\* lines 75-86, once the children are converted
ProcessTag(node, processed_children_text) ==
    IF node.name \notin DOMAIN TAG_HELPER_MAP
    THEN processed_children_text
    ELSE to_markdown(TAG_HELPER_MAP[node.name], node, processed_children_text)

\* line 72: "".join(self.process_node(child) for child in node.children)
ProcessChildren(children, i) ==
    IF i > Len(children) THEN <<>>
    ELSE process_node(children[i]) \o ProcessChildren(children, i + 1)

process_node(node) ==
    IF node.name = "#text" THEN node.text
    ELSE ProcessTag(node, ProcessChildren(node.children, 1))

\* BeautifulSoup(html, "lxml") for a fragment that begins with an element of
\* the body: the document node, <html> and <body> around the fragment
BeautifulSoup(html) ==
    Tag("[document]", NoAttrs, <<Tag("html", NoAttrs, <<Tag("body", NoAttrs, html)>>)>>)

\* MarkdownConverter.convert (lines 56-61)
convert(html) == process_node(BeautifulSoup(html))

\* the outcome of a call: a string, or an exception
Markdown(raised, error, value) == [raised |-> raised, error |-> error, value |-> value]
NoMarkdown == Markdown(FALSE, "", <<>>)

\* a conversion call, as the state records it
NoTag == Tag("", NoAttrs, <<>>)
ConvertCall(call, tag, text, out) == [call |-> call, tag |-> tag, text |-> text, out |-> out]
NoCall == ConvertCall("", NoTag, <<>>, NoMarkdown)

\* html_to_markdown (lines 96-107), from a client that imports it
html_to_markdown(html) ==
    IF ~ImportConverter
    THEN Markdown(TRUE, "AttributeError", <<>>)
    ELSE Markdown(FALSE, "", PyStrip(decode_tag(convert(html))))

(***************************************************************************)
(* Metadata (parsers/base.py get_metadata, models/meta.py, articles.py).   *)
(* A page is described by the content of its meta tags, "" for a tag the   *)
(* page does not have, and by its <script type="application/ld+json">      *)
(* blocks in document order.  A block is malformed JSON or a JSON-LD node  *)
(* with its @type, headline, datePublished and, for a BreadcrumbList, the  *)
(* names of its items.                                                     *)
(***************************************************************************)
NoStr == ""

\* a page: the html string is "" (empty), " " (whitespace only) or markup
\* (raw = "<html>") with these meta tags, JSON-LD blocks and visible text of
\* its main/article/body element
MetaPage(og_title, twitter_title, published_time, section, scripts) ==
    [og_title |-> og_title, twitter_title |-> twitter_title,
     published_time |-> published_time, section |-> section, scripts |-> scripts,
     raw |-> "<html>", description |-> NoStr, author |-> NoStr,
     modified_time |-> NoStr, keywords |-> <<>>, og_url |-> NoStr,
     body |-> "Body text"]

\* the page with <meta name="description">, <meta name="author">,
\* article:modified_time, <meta name="keywords"> (its comma-separated
\* parts), og:url and the given body text
WithMeta(page, description, author, modified_time, keywords, og_url, body) ==
    [page EXCEPT !.description = description, !.author = author,
                 !.modified_time = modified_time, !.keywords = keywords,
                 !.og_url = og_url, !.body = body]

\* an html string without markup: "" or " "
RawHtml(raw) ==
    [MetaPage(NoStr, NoStr, NoStr, NoStr, <<>>) EXCEPT !.raw = raw, !.body = NoStr]

Malformed ==
    [kind |-> "malformed", type |-> NoStr, headline |-> NoStr, datePublished |-> NoStr,
     topics |-> <<>>]
JsonLd(type, headline, datePublished, topics) ==
    [kind |-> "json", type |-> type, headline |-> headline,
     datePublished |-> datePublished, topics |-> topics]

\* Python's `a or b` on optional strings
Or(a, b) == IF a # NoStr THEN a ELSE b

\* normalize_datetime (utils/normalization.py lines 38-54): the datetime an
\* ISO string stands for, None for anything else
normalize_datetime(value) ==
    CASE value = "2023-01-01T12:00:00Z" -> "datetime(2023, 1, 1, 12, 0)"
      [] value = "2023-01-02T12:00:00Z" -> "datetime(2023, 1, 2, 12, 0)"
      [] value = "2023-01-03T12:00:00Z" -> "datetime(2023, 1, 3, 12, 0)"
      [] value = "2023-01-04T12:00:00Z" -> "datetime(2023, 1, 4, 12, 0)"
      [] OTHER -> NoStr

\* normalize_list_str (utils/normalization.py lines 61-70) on the parts of a
\* comma-separated string: empty parts are dropped
normalize_list_str(parts) == SelectSeq(parts, LAMBDA s : s \notin {NoStr, " "})

\* pydantic's HttpUrl: an absolute http(s) URL
HttpUrl(url) == url \in {"https://example.com/a"}

\* ResponseMeta.from_soup over Meta.from_soup (models/meta.py lines 269-336
\* and 403-434) for a page without <meta name="title">.  canonical is a str
\* in Meta and an HttpUrl in ResponseMeta (lines 198 and 363): building the
\* ResponseMeta raises ValidationError for an og:url that is not one.
from_soup(page) ==
    [error |-> IF page.og_url # NoStr /\ ~HttpUrl(page.og_url)
               THEN "ValidationError" ELSE NoStr,
     title |-> Or(page.og_title, page.twitter_title),
     description |-> page.description,
     author |-> page.author,
     date_published |-> normalize_datetime(page.published_time),
     date_modified |-> normalize_datetime(page.modified_time),
     tags |-> normalize_list_str(page.keywords),
     topics |-> IF page.section = NoStr THEN <<>> ELSE <<page.section>>,
     canonical |-> page.og_url,
     schema_org |-> <<>>]

RECURSIVE SchemaTopicsAbort(_, _)
\* the loop with its inner try/except taken away: the first block that
\* json.loads rejects ends the collection
SchemaTopicsAbort(scripts, i) ==
    IF i > Len(scripts) \/ scripts[i].kind # "json" THEN <<>>
    ELSE (IF scripts[i].type = "BreadcrumbList" THEN scripts[i].topics ELSE <<>>)
         \o SchemaTopicsAbort(scripts, i + 1)

RECURSIVE SchemaTopics(_, _)
\* schema_topics of get_metadata (lines 406-421): the topics of the
\* BreadcrumbList blocks; a block json.loads rejects is skipped
SchemaTopics(scripts, i) ==
    IF i > Len(scripts) THEN <<>>
    ELSE (IF scripts[i].kind = "json" /\ scripts[i].type = "BreadcrumbList"
          THEN scripts[i].topics ELSE <<>>)
         \o SchemaTopics(scripts, i + 1)

\* all_schemas of get_metadata (lines 408-412)
AllSchemas(scripts) == SelectSeq(scripts, LAMBDA block : block.kind = "json")

\* lines 426-432, with meta_helper = ResponseMeta.from_soup(soup)
WithSchemas(meta_helper, schema_topics, all_schemas) ==
    IF meta_helper.error # NoStr THEN meta_helper
    ELSE [meta_helper EXCEPT
            !.topics = IF schema_topics # <<>> /\ meta_helper.topics = <<>>
                       THEN schema_topics ELSE meta_helper.topics,
            !.schema_org = all_schemas]

\* get_metadata (parsers/base.py lines 393-434)
get_metadata(page) ==
    WithSchemas(from_soup(page), SchemaTopics(page.scripts, 1), AllSchemas(page.scripts))

\* parsed_data of Article.from_html (articles.py lines 371-374): what
\* get_parsed_data returned for the parser config, a key parse() left out
\* being "" or <<>>; has_config is FALSE for a call without parser_config.
\* content_is_list: the content field was configured with all = true.
ParsedData(has_config, title, description, authors, date_published, date_modified, tags, topics, content, content_is_list) ==
    [has_config |-> has_config, title |-> title, description |-> description,
     authors |-> authors, date_published |-> date_published,
     date_modified |-> date_modified, tags |-> tags, topics |-> topics,
     content |-> content, content_is_list |-> content_is_list]

NoParsedData == ParsedData(FALSE, NoStr, NoStr, <<>>, NoStr, NoStr, <<>>, <<>>, NoStr, FALSE)

\* line 377: the content still holds markup
HasMarkup(content) == content \in {"<p>Selected</p><p>text</p>", "<p> </p>", "<nav>Menu</nav>"}

\* lines 380-404: the markup cleaned with COMMON_CLEANUP_SELECTORS, converted
\* by markdownify and stripped line by line
CleanedMarkdown(content) ==
    CASE content = "<p>Selected</p><p>text</p>" -> "Selected\ntext"
      [] OTHER -> NoStr

\* lines 373-413: the content of the article before validation; "list" when
\* the parser returned a list, on which line 415 calls .strip()
Content(page, parsed) ==
    IF parsed.has_config
    THEN IF parsed.content = NoStr THEN NoStr
         ELSE IF parsed.content_is_list THEN "list"
         ELSE IF HasMarkup(parsed.content) THEN CleanedMarkdown(parsed.content)
         ELSE parsed.content
    ELSE page.body

\* Article._normalize_content (lines 157-169)
_normalize_content(v) ==
    CASE v = "Selected\ntext" -> "Selected text"
      [] v = " " -> NoStr
      [] OTHER -> v

\* lines 427-439: the authors of the parser, else the author of the meta tags
Authors(response_meta, parsed) ==
    IF SelectSeq(parsed.authors, LAMBDA name : name \notin {NoStr, " "}) # <<>>
    THEN SelectSeq(parsed.authors, LAMBDA name : name \notin {NoStr, " "})
    ELSE IF response_meta.author # NoStr THEN <<response_meta.author>>
    ELSE <<>>

\* pydantic's validation of an Optional[datetime] field: a datetime or an
\* ISO string is accepted, any other string is a ValidationError
ValidDatetime(value) ==
    value = NoStr \/ value \in {"datetime(2023, 1, 1, 12, 0)", "datetime(2023, 1, 2, 12, 0)",
                                "datetime(2023, 1, 3, 12, 0)", "datetime(2023, 1, 4, 12, 0)"}
                  \/ normalize_datetime(value) # NoStr
AsDatetime(value) == IF normalize_datetime(value) # NoStr THEN normalize_datetime(value) ELSE value

\* the result of a call of Article.from_html: error is the exception raised,
\* "" when an Article was returned
ArticleResult(error, parsed, title, description, content, authors, published_at, modified_at, tags, topics, schema_org) ==
    [called |-> TRUE, error |-> error, parsed |-> parsed, title |-> title,
     description |-> description, content |-> content, authors |-> authors,
     published_at |-> published_at, modified_at |-> modified_at, tags |-> tags,
     topics |-> topics, schema_org |-> schema_org]

Raised(error, parsed) ==
    ArticleResult(error, parsed, NoStr, NoStr, NoStr, <<>>, NoStr, NoStr, <<>>, <<>>, <<>>)

\* Article.from_html after the content is known (articles.py lines 418-470):
\* what the article takes from the metadata and from parsed_data
Assemble(response_meta, parsed, content, published_at, modified_at) ==
    IF ~ValidDatetime(published_at) \/ ~ValidDatetime(modified_at)
    THEN Raised("ArticleCreationError", parsed)
    ELSE ArticleResult(NoStr, parsed,
                       Or(response_meta.title, "No title found"),
                       response_meta.description,
                       _normalize_content(content),
                       Authors(response_meta, parsed),
                       AsDatetime(published_at), AsDatetime(modified_at),
                       IF parsed.tags # <<>> THEN parsed.tags ELSE response_meta.tags,
                       IF parsed.topics # <<>> THEN parsed.topics ELSE response_meta.topics,
                       response_meta.schema_org)

\* lines 360-422 with the metadata and the content at hand
Create(page, response_meta, parsed, content) ==
    IF page.raw \in {NoStr, " "} THEN Raised("ArticleCreationError", parsed)
    ELSE IF response_meta.error # NoStr THEN Raised(response_meta.error, parsed)
    ELSE IF content = "list" THEN Raised("AttributeError", parsed)
    ELSE IF content \in {NoStr, " "} THEN Raised("ArticleCreationError", parsed)
    ELSE Assemble(response_meta, parsed, content,
                  Or(parsed.date_published, response_meta.date_published),
                  Or(parsed.date_modified, response_meta.date_modified))

\* Article.from_html(html, url, parser_config) (articles.py lines 336-470)
from_html(page, parsed) == Create(page, get_metadata(page), parsed, Content(page, parsed))

NoArticle ==
    [called |-> FALSE, error |-> NoStr, parsed |-> NoParsedData, title |-> NoStr,
     description |-> NoStr, content |-> NoStr, authors |-> <<>>, published_at |-> NoStr,
     modified_at |-> NoStr, tags |-> <<>>, topics |-> <<>>, schema_org |-> <<>>]

(***************************************************************************)
(* ScraperCache (cache.py): a queue of URLs to process and an index of the *)
(* URLs seen, both kept on disk by diskcache and shared by the workers     *)
(* that open the same cache directory (worker.py line 27, api.py line 25). *)
(* One operation on the Deque or on the Index is atomic; a method of       *)
(* ScraperCache that makes several of them is not, and the steps of        *)
(* different workers interleave.                                           *)
(***************************************************************************)
MaxWorkers == 2
MaxCalls == 2
MaxBatch == 2

Workers == 1..MaxWorkers
Urls == {"https://a.example/1", "https://a.example/2"}

\* _compute_cache_key (lines 17-44): the digest of the URL
_compute_cache_key(url) == <<"md5", url>>

\* what a worker is doing:
\*   pc       "idle", or the next step of its add_url call: "has_url",
\*            "append", "mark_as_seen"
\*   op       the method called: "add_url", "add_urls", "get_next_url"
\*   url      the argument of the running add_url
\*   pending  the URLs add_urls has still to add
\*   added_count, result: the local of add_urls, the value last returned
\*   ncalls   the calls made so far
Worker(wpc, op, url, pending, added_count, result, ncalls) ==
    [pc |-> wpc, op |-> op, url |-> url, pending |-> pending,
     added_count |-> added_count, result |-> result, ncalls |-> ncalls]

IdleWorker == Worker("idle", "", "", <<>>, 0, "", 0)

\* what has happened to each URL: how often it was appended to the queue,
\* how often add_url returned True and False for it, how often
\* get_next_url handed it out, and whether it was appended after it had
\* been handed out
NoLog ==
    [appended |-> [u \in Urls |-> 0], returned_true |-> [u \in Urls |-> 0],
     returned_false |-> [u \in Urls |-> 0], handed |-> [u \in Urls |-> 0],
     requeued |-> {}]

\* add_url has returned `added` for worker wk (lines 89, 92): add_urls
\* counts it and goes on with its next URL (lines 105-108), or the call ends
AfterAddUrl(wk, added) ==
    IF wk.op = "add_urls" /\ wk.pending # <<>>
    THEN Worker("has_url", wk.op, Head(wk.pending), Tail(wk.pending),
                wk.added_count + (IF added THEN 1 ELSE 0), "", wk.ncalls)
    ELSE IF wk.op = "add_urls"
    THEN Worker("idle", wk.op, wk.url, <<>>, 0,
                <<"int", wk.added_count + (IF added THEN 1 ELSE 0)>>, wk.ncalls)
    ELSE Worker("idle", wk.op, wk.url, <<>>, 0, <<"bool", added>>, wk.ncalls)

(***************************************************************************)
(* chunk_text_by_char (chunking.py lines 71-113).  A text is a sequence of *)
(* characters; the locals of the function are the fields of one record:   *)
(*   pc      "idle", "called", "while" (at the loop test), "returned"      *)
(*   starts  the value of start_pos at the beginning of each iteration     *)
(***************************************************************************)
MaxText == 3
MaxChars == 3
MaxOverlap == 3
MaxIterations == 5

Chunker(cpc, text, max_chars, overlap_chars, start_pos, index, chunks, starts) ==
    [pc |-> cpc, text |-> text, max_chars |-> max_chars, overlap_chars |-> overlap_chars,
     start_pos |-> start_pos, index |-> index, chunks |-> chunks, starts |-> starts]

NoChunker == Chunker("idle", <<>>, 0, 0, 0, 0, <<>>, <<>>)

Min(a, b) == IF a <= b THEN a ELSE b

\* text[start_pos:end_pos].strip() (line 100)
Slice(text, start_pos, end_pos) == PyStrip(SubSeq(text, start_pos + 1, end_pos))

\* ArticleChunk.from_text(index, text) (lines 53-68)
ArticleChunk(index, text) == [index |-> index, content |-> text, char_length |-> Len(text)]

\* lines 107-111 with end_pos computed
NextStart(c, end_pos) ==
    IF end_pos - c.overlap_chars <= c.start_pos THEN end_pos
    ELSE end_pos - c.overlap_chars

\* lines 99-111: one iteration of the loop, chunk_text being the window
Iteration(c, end_pos, chunk_text) ==
    [c EXCEPT !.chunks = IF chunk_text # <<>>
                         THEN Append(c.chunks, ArticleChunk(c.index, chunk_text))
                         ELSE c.chunks,
              !.index = IF chunk_text # <<>> THEN c.index + 1 ELSE c.index,
              !.start_pos = NextStart(c, end_pos),
              !.starts = Append(c.starts, c.start_pos)]

(***************************************************************************)
(* Inputs of the model.                                                    *)
(***************************************************************************)
RECURSIVE SeqsUpTo(_, _)
\* the sequences over S of length at most n
SeqsUpTo(S, n) ==
    IF n = 0 THEN {<<>>}
    ELSE LET shorter == SeqsUpTo(S, n - 1)
         IN shorter \cup {Append(q, x) : q \in shorter, x \in S}

Q_a == <<"a">>
Q_h2 == <<"h2">>
Q_span == <<"span">>
Q_ads == <<".ads">>
Q_byline == <<".byline">>
Q_content == <<"div", ".content">>
Q_missing == <<".missing">>
Q_bad == <<"[">>
X_a == <<"//", "a">>
X_h2 == <<"//", "h2">>
X_span_sp == <<" ", "//", "span">>
X_ads == <<"//", "span", "[ads]">>
X_byline == <<"//", "div", "[byline]">>
X_content == <<"//", "div", "[content]">>
X_rel_a == <<".", "//", "a">>
X_nav_abs == <<"/", "html", "/", "body", "/", "nav">>
X_bad == <<"//", "[">>

\* the items the fallback chains of the model are made of: a CSS and an
\* XPath query that match, a query that matches nothing, a malformed CSS
\* and a malformed XPath query, a parent that is found, one that is not,
\* a CSS query under an XPath-looking parent, an item with no query, one
\* with an unknown selector_type, and a query matching elements that have
\* no href
ChainItems ==
    { StrItem(Q_a), StrItem(Q_h2), StrItem(X_a), StrItem(Q_bad), StrItem(X_bad),
      StrItem(Q_span),
      DictItem(Q_a, CSS, "href", Q_byline),
      DictItem(Q_a, AUTO, NoAttr, Q_missing),
      DictItem(Q_a, CSS, NoAttr, X_byline),
      DictItem(NoQuery, AUTO, NoAttr, NoQuery),
      DictItem(Q_a, BOGUS, NoAttr, NoQuery) }

\* the items resolved alone, with every option of the field
Items ==
    { StrItem(Q_a), StrItem(Q_h2), StrItem(X_a), StrItem(X_h2), StrItem(Q_bad),
      StrItem(X_bad), StrItem(X_span_sp), StrItem(Q_content), StrItem(Q_byline),
      StrItem(X_byline),
      DictItem(Q_a, CSS, "href", Q_byline),
      DictItem(Q_a, AUTO, NoAttr, Q_missing),
      DictItem(X_a, XPATH, NoAttr, X_byline),
      DictItem(Q_a, CSS, NoAttr, X_byline),
      DictItem(X_rel_a, XPATH, "href", Q_byline),
      DictItem(Q_a, XPATH, NoAttr, X_content),
      DictItem(Q_a, XPATH, NoAttr, NoQuery),
      DictItem(X_a, CSS, NoAttr, NoQuery),
      DictItem(X_a, AUTO, NoAttr, NoQuery),
      DictItem(Q_a, AUTO, NoAttr, NoQuery),
      DictItem(X_nav_abs, AUTO, NoAttr, X_byline),
      DictItem(X_span_sp, AUTO, NoAttr, X_byline),
      DictItem(NoQuery, AUTO, NoAttr, NoQuery),
      DictItem(Q_a, BOGUS, NoAttr, NoQuery) }

\* the per-field cleanup lists of the model
FieldCleanups == { <<>>, <<Q_ads>>, <<X_ads>>, <<Q_span>>, <<Q_bad, Q_ads>> }

ExtractTypes == {"text", "html", "attribute"}
AttributeNames == {NoAttr, "href"}
BaseUrls == {NoUrl, "https://example.com"}

\* the selectors handed to _extract_element directly: every chain with
\* the default options, and every item alone with every option
DirectSelectors ==
    { ElementSelector(ListSelector(chain), "text", attr, all, <<>>) :
        chain \in SeqsUpTo(ChainItems, MaxChain), attr \in AttributeNames, all \in BOOLEAN }
    \cup
    { ElementSelector(sel, type, attr, all, cleanup) :
        sel \in {ListSelector(<<it>>) : it \in Items}
                \cup {StrSelector(it.query) : it \in {x \in Items : x.form = "str"}},
        type \in ExtractTypes, attr \in AttributeNames, all \in BOOLEAN,
        cleanup \in FieldCleanups }

\* the global cleanup lists of the model
GlobalCleanups == SeqsUpTo({Q_ads, X_ads, <<"nav">>, Q_bad}, MaxCleanup)

ContentSelectors ==
    { ElementSelector(StrSelector(Q_content), "html", NoAttr, FALSE, <<Q_ads>>),
      ElementSelector(StrSelector(X_content), "html", NoAttr, FALSE, <<Q_ads>>),
      ElementSelector(StrSelector(Q_content), "text", NoAttr, FALSE, <<X_ads>>),
      ElementSelector(StrSelector(Q_content), "html", NoAttr, FALSE, <<>>),
      ElementSelector(StrSelector(Q_h2), "text", NoAttr, FALSE, <<>>) }

OtherSelectors ==
    { ElementSelector(StrSelector(Q_ads), "text", NoAttr, FALSE, <<>>),
      ElementSelector(StrSelector(X_ads), "text", NoAttr, FALSE, <<>>),
      ElementSelector(ListSelector(<<DictItem(Q_a, AUTO, NoAttr, Q_content)>>),
                      "text", "href", TRUE, <<>>),
      ElementSelector(StrSelector(Q_byline), "text", NoAttr, FALSE, <<Q_span>>),
      ElementSelector(ListSelector(<<DictItem(Q_a, BOGUS, NoAttr, NoQuery)>>),
                      "text", NoAttr, FALSE, <<>>) }

\* a ParserConfig: content is required, every other selector is optional
ParserConfig(cleanup, content, field, selector) ==
    [f \in {ModelFields[i] : i \in 1..Len(ModelFields)} |->
        IF f \in {"domain", "lang", "type"} THEN Plain("str")
        ELSE IF f = "cleanup" THEN [kind |-> "list", items |-> cleanup]
        ELSE IF f \in {"sitemaps", "rss_feeds"} THEN Plain("list")
        ELSE IF f = "content" THEN content
        ELSE IF f = field THEN selector
        ELSE Plain("None")]

Configs ==
    { ParserConfig(cleanup, content, "content", content) :
        cleanup \in GlobalCleanups, content \in ContentSelectors }
    \cup
    { ParserConfig(cleanup, content, field, selector) :
        cleanup \in GlobalCleanups, content \in ContentSelectors,
        field \in SelectorFields \ {"content"}, selector \in OtherSelectors }

(***************************************************************************)
(* Fragments to convert.                                                   *)
(***************************************************************************)
T_hello == <<"Hello">>
T_js == <<"x()">>
T_ws == <<"a", "\n", "\t", " ", " ", "b">>
T_pad == <<" ", "t", " ">>

U_jpg == <<"https", "://x.com/a", ".jpg">>
U_webp == <<"https", "://x.com/b", ".webp">>
U_exe == <<"http", "://x.com/a", ".png", ".exe">>
U_page == <<"http", "://x.com/page">>
U_rel == <<"img/a", ".jpg">>
U_js == <<"javascript", ":alert(1)">>
U_root == <<"/", "u">>
U_frag == <<"#", "top">>

Attrs(name, value) == [NoAttrs EXCEPT ![name] = value]

Para(text) == Tag("p", NoAttrs, <<NavigableString(text)>>)
Payload(name) == Tag(name, NoAttrs, <<NavigableString(T_js)>>)

Elements ==
    { Payload(name) : name \in {"script", "style", "noscript", "iframe"} }
    \cup { Tag("div", NoAttrs, <<Payload("script"), NavigableString(T_hello)>>),
           Tag("div", NoAttrs, <<Para(<<"b">>)>>),
           Tag("section", NoAttrs, <<NavigableString(T_pad), Para(<<"b">>)>>),
           Tag("ul", NoAttrs, <<Tag("li", NoAttrs, <<NavigableString(<<"i">>)>>)>>),
           Tag("img", [Attrs("src", U_jpg) EXCEPT !.alt = <<"A">>], <<>>),
           Tag("img", Attrs("data_src", U_jpg), <<>>),
           Tag("img", [Attrs("src", U_page) EXCEPT !.data_src = U_jpg], <<>>),
           Tag("img", [Attrs("src", U_rel) EXCEPT !.data_original = U_page,
                                                  !.srcset = U_jpg], <<>>),
           Tag("img", [Attrs("src", U_rel) EXCEPT !.data_src = U_jpg,
                                                  !.srcset = U_webp], <<>>) }
    \cup { Para(text) : text \in {<<"a">>, T_ws} }
    \cup { Tag("img", Attrs("src", src), <<>>) : src \in {U_js, U_exe, U_page, U_rel} }
    \cup { Tag("a", Attrs("href", href), <<NavigableString(T_hello)>>) :
             href \in {<<>>, U_page, U_js, U_root, U_frag} }

Fragments == SeqsUpTo(Elements, MaxFragment) \ {<<>>}

\* the processed_text a helper is built with
ProcessedTexts == {<<>>, <<" ">>, T_pad, T_hello, T_ws}

(***************************************************************************)
(* Pages to take metadata from.                                            *)
(***************************************************************************)
JsonLdBlocks ==
    { Malformed,
      JsonLd("NewsArticle", "Schema Headline", "2023-01-02T12:00:00Z", <<>>),
      JsonLd("Article", "Other Headline", NoStr, <<>>),
      JsonLd("WebPage", NoStr, "2023-01-02T12:00:00Z", <<>>),
      JsonLd("Organization", NoStr, NoStr, <<>>),
      JsonLd("BreadcrumbList", NoStr, NoStr, <<"World">>) }

MetaPages ==
    { MetaPage(og_title, twitter_title, published_time, section, scripts) :
        og_title \in {NoStr, "OpenGraph Title"},
        twitter_title \in {NoStr, "Twitter Title"},
        published_time \in {NoStr, "2023-01-01T12:00:00Z"},
        section \in {NoStr, "News"},
        scripts \in SeqsUpTo(JsonLdBlocks, MaxScripts) }

\* pages with the other meta tags, and html strings without markup
TaggedPages ==
    { WithMeta(MetaPage(og_title, NoStr, published_time, section, <<>>),
               description, author, modified_time, keywords, og_url, body) :
        og_title \in {NoStr, "OpenGraph Title"},
        published_time \in {NoStr, "2023-01-01T12:00:00Z"},
        section \in {NoStr, "News"},
        description \in {NoStr, "Meta description"},
        author \in {NoStr, "Meta Author"},
        modified_time \in {NoStr, "2023-01-03T12:00:00Z"},
        keywords \in {<<>>, <<"meta-tag", "", "web">>},
        og_url \in {NoStr, "https://example.com/a", "/a"},
        body \in {NoStr, "Body text"} }
    \cup {RawHtml(NoStr), RawHtml(" ")}

\* what the parser of a configuration can hand to Article.from_html
SelectedDate == "2023-01-04T12:00:00Z"
ParsedDatas ==
    { NoParsedData }
    \cup { ParsedData(TRUE, title, description, authors, date, date, tags, tags, content, FALSE) :
             title \in {NoStr, "Selector Title"},
             description \in {NoStr, "Selector description"},
             authors \in {<<>>, <<"Selector Author">>},
             date \in {NoStr, SelectedDate},
             tags \in {<<>>, <<"selected">>},
             content \in {"Selected text"} }
    \cup { ParsedData(TRUE, NoStr, NoStr, <<>>, date, NoStr, <<>>, <<>>, content, is_list) :
             date \in {NoStr, "yesterday"},
             content \in {NoStr, "Selected text", "<p>Selected</p><p>text</p>", "<p> </p>",
                          "<nav>Menu</nav>"},
             is_list \in BOOLEAN }

(***************************************************************************)
(* State.                                                                  *)
(*   pc           "new": BaseParser(soup, config, base_url) not yet run;   *)
(*                "ready": constructed; "parsed": parse() returned;        *)
(*                "called": a direct _extract_element call returned;       *)
(*                "raised": the call raised                                *)
(*   config, base_url   the arguments of the constructor                   *)
(*   soup, tree   the elements in self.soup / self.tree                    *)
(*   parsed_data  what parse() returned                                    *)
(*   calls        the _extract_element calls made so far (history)         *)
(*   hits         the elements the global cleanup matched (history)        *)
(*   html, markdown   the fragment to convert and the conversion made      *)
(*   article      what Article.from_html took from the metadata of the     *)
(*                page `html`                                              *)
(*   _url_queue, _seen_urls   the deque and the set of ArticleCache        *)
(*                (cache.py), shared by the workers                        *)
(*   workers      for each worker, its position in the cache operation it  *)
(*                is running and the locals of that operation              *)
(*   cache_log    the appends made to the queue (history)                  *)
(*   chunker      the locals of one chunk_text_by_char call (chunking.py)  *)
(*                and the start of every window it cut (history)           *)
(***************************************************************************)
VARIABLES pc, config, base_url, soup, tree, parsed_data, calls, hits, html, markdown, article,
          _url_queue, _seen_urls, workers, cache_log, chunker

vars == <<pc, config, base_url, soup, tree, parsed_data, calls, hits, html, markdown, article,
          _url_queue, _seen_urls, workers, cache_log, chunker>>

\* the variables of the parser, the converter and the article
parserVars == <<pc, config, base_url, soup, tree, parsed_data, calls, hits, html, markdown, article>>
\* the variables of the cache and of the chunker
cacheVars == <<_url_queue, _seen_urls, workers, cache_log>>

\* no worker uses the cache, nothing is being chunked
NoCacheUse ==
    /\ _url_queue = <<>>
    /\ _seen_urls = {}
    /\ workers = [w \in Workers |-> IdleWorker]
    /\ cache_log = NoLog
NoChunking == chunker = NoChunker

\* parsed_data = {}
NoData == [f \in SelectorFields |-> NoKey]

InitWith(cfgs, urls) ==
    /\ pc = "new"
    /\ config \in cfgs
    /\ base_url \in urls
    /\ soup = Nodes
    /\ tree = Nodes
    /\ parsed_data = NoData
    /\ calls = <<>>
    /\ hits = {}

\* BaseParser.__init__ (lines 19-38)
Construct ==
    /\ pc = "new"
    /\ LET Cleaned(r) == /\ soup' = r.soup
                         /\ tree' = r.tree
                         /\ hits' = r.hits
       IN Cleaned(IF config["cleanup"].items = <<>>
                  THEN [soup |-> soup, tree |-> tree, hits |-> {}]
                  ELSE _run_cleanup(soup, tree, config["cleanup"].items, 1, {}))
    /\ pc' = "ready"
    /\ UNCHANGED <<config, base_url, parsed_data, calls, html, markdown, article>>
    /\ UNCHANGED <<cacheVars, chunker>>

\* BaseParser.parse()
Parse ==
    /\ pc = "ready"
    /\ LET Parsed(r) == /\ soup' = r.soup
                        /\ parsed_data' = r.parsed_data
                        /\ calls' = r.calls
                        /\ pc' = IF r.raised THEN "raised" ELSE "parsed"
       IN Parsed(ParseLoop(soup, tree, config, base_url, 1, NoData, <<>>))
    /\ UNCHANGED <<config, base_url, tree, hits, html, markdown, article>>
    /\ UNCHANGED <<cacheVars, chunker>>

\* parser._extract_element(selector), called directly as the tests do
ExtractElementCall ==
    /\ pc = "ready"
    /\ \E selector \in DirectSelectors :
         LET Called(c) ==
               /\ soup' = c.soup
               /\ calls' = Append(calls, [field |-> "direct", selector |-> selector,
                                           call |-> c])
               /\ pc' = IF c.raised THEN "raised" ELSE "called"
         IN Called(_extract_element(soup, tree, selector, base_url))
    /\ UNCHANGED <<config, base_url, tree, parsed_data, hits, html, markdown, article>>
    /\ UNCHANGED <<cacheVars, chunker>>

\* parsing pages: BaseParser(...).parse()
Init ==
    /\ InitWith(Configs, {NoUrl})
    /\ html = <<>>
    /\ markdown = NoCall
    /\ article = NoArticle
    /\ NoCacheUse
    /\ NoChunking
Next == Construct \/ Parse
Spec == Init /\ [][Next]_vars

\* resolving one selector: BaseParser(...)._extract_element(selector)
TestConfig ==
    ParserConfig(<<>>, ElementSelector(StrSelector(Q_content), "html", NoAttr, FALSE, <<>>),
                 "content",
                 ElementSelector(StrSelector(Q_content), "html", NoAttr, FALSE, <<>>))
InitExtract ==
    /\ InitWith({TestConfig}, BaseUrls)
    /\ html = <<>>
    /\ markdown = NoCall
    /\ article = NoArticle
    /\ NoCacheUse
    /\ NoChunking
NextExtract == Construct \/ ExtractElementCall
SpecExtract == InitExtract /\ [][NextExtract]_vars

(***************************************************************************)
(* Converting fragments.                                                   *)
(*   html      the parsed fragment, a sequence of nodes                    *)
(*   markdown  the last conversion call: `call` is "html_to_markdown" or   *)
(*             the name of the helper class whose to_markdown ran, `tag`   *)
(*             and `text` are the helper's arguments, `out` the outcome    *)
(***************************************************************************)
InitConvert ==
    /\ InitWith({TestConfig}, {NoUrl})
    /\ html \in Fragments
    /\ markdown = NoCall
    /\ article = NoArticle
    /\ NoCacheUse
    /\ NoChunking

\* html_to_markdown(html)
HtmlToMarkdown ==
    /\ pc = "new"
    /\ markdown = NoCall
    /\ markdown' = ConvertCall("html_to_markdown", NoTag, <<>>, html_to_markdown(html))
    /\ UNCHANGED <<pc, config, base_url, soup, tree, parsed_data, calls, hits, html, article>>
    /\ UNCHANGED <<cacheVars, chunker>>

\* html_helpers.<Class>(tag=tag, processed_text=text).to_markdown(), with the
\* class TAG_HELPER_MAP names for the tag
HelperToMarkdown ==
    /\ pc = "new"
    /\ markdown = NoCall
    /\ \E i \in 1..Len(html), text \in ProcessedTexts :
         /\ html[i].name \in DOMAIN TAG_HELPER_MAP
         /\ markdown' =
              ConvertCall(TAG_HELPER_MAP[html[i].name], html[i], text,
                          IF TAG_HELPER_MAP[html[i].name] \notin HtmlHelpers
                          THEN Markdown(TRUE, "AttributeError", <<>>)
                          ELSE Markdown(FALSE, "",
                                        to_markdown(TAG_HELPER_MAP[html[i].name], html[i], text)))
    /\ UNCHANGED <<pc, config, base_url, soup, tree, parsed_data, calls, hits, html, article>>
    /\ UNCHANGED <<cacheVars, chunker>>

NextConvert == HtmlToMarkdown \/ HelperToMarkdown
SpecConvert == InitConvert /\ [][NextConvert]_vars


(***************************************************************************)
(* Taking the metadata of a page: Article.from_html(html, url).            *)
(***************************************************************************)
InitMeta ==
    /\ InitWith({TestConfig}, {NoUrl})
    /\ html \in MetaPages \cup TaggedPages
    /\ markdown = NoCall
    /\ article = NoArticle
    /\ NoCacheUse
    /\ NoChunking

FromHtml ==
    /\ pc = "new"
    /\ ~article.called
    /\ \E parsed \in ParsedDatas : article' = from_html(html, parsed)
    /\ UNCHANGED <<pc, config, base_url, soup, tree, parsed_data, calls, hits, html, markdown>>
    /\ UNCHANGED <<cacheVars, chunker>>

NextMeta == FromHtml
SpecMeta == InitMeta /\ [][NextMeta]_vars

(***************************************************************************)
(* Workers sharing one ScraperCache.                                       *)
(***************************************************************************)
UrlBatches == SeqsUpTo(Urls, MaxBatch)

InitCache ==
    /\ InitWith({TestConfig}, {NoUrl})
    /\ html = <<>>
    /\ markdown = NoCall
    /\ article = NoArticle
    /\ NoCacheUse
    /\ NoChunking

\* a worker calls cache.add_url(url)
add_url ==
    \E w \in Workers, url \in Urls :
      /\ workers[w].pc = "idle"
      /\ workers[w].ncalls < MaxCalls
      /\ workers' = [workers EXCEPT ![w] = Worker("has_url", "add_url", url, <<>>, 0, "",
                                                  workers[w].ncalls + 1)]
      /\ UNCHANGED <<parserVars, _url_queue, _seen_urls, cache_log, chunker>>

\* a worker calls cache.add_urls(urls) (lines 94-108)
add_urls ==
    \E w \in Workers, urls \in UrlBatches :
      /\ workers[w].pc = "idle"
      /\ workers[w].ncalls < MaxCalls
      /\ workers' = [workers EXCEPT ![w] =
                       IF urls = <<>>
                       THEN Worker("idle", "add_urls", "", <<>>, 0, <<"int", 0>>,
                                   workers[w].ncalls + 1)
                       ELSE Worker("has_url", "add_urls", Head(urls), Tail(urls), 0, "",
                                   workers[w].ncalls + 1)]
      /\ UNCHANGED <<parserVars, _url_queue, _seen_urls, cache_log, chunker>>

\* line 88 of add_url: has_url(url) reads the index (lines 110-124); a URL
\* that was seen ends the call with False
has_url ==
    \E w \in Workers :
      /\ workers[w].pc = "has_url"
      /\ IF _compute_cache_key(workers[w].url) \in _seen_urls
         THEN /\ workers' = [workers EXCEPT ![w] = AfterAddUrl(workers[w], FALSE)]
              /\ cache_log' = [cache_log EXCEPT !.returned_false[workers[w].url] = @ + 1]
         ELSE /\ workers' = [workers EXCEPT ![w].pc = "append"]
              /\ UNCHANGED cache_log
      /\ UNCHANGED <<parserVars, _url_queue, _seen_urls, chunker>>

\* line 90 of add_url: self._url_queue.append(url)
append ==
    \E w \in Workers :
      /\ workers[w].pc = "append"
      /\ _url_queue' = Append(_url_queue, workers[w].url)
      /\ cache_log' = [cache_log EXCEPT
                         !.appended[workers[w].url] = @ + 1,
                         !.requeued = IF cache_log.handed[workers[w].url] > 0
                                      THEN @ \cup {workers[w].url} ELSE @]
      /\ workers' = [workers EXCEPT ![w].pc = "mark_as_seen"]
      /\ UNCHANGED <<parserVars, _seen_urls, chunker>>

\* lines 91-92 of add_url: mark_as_seen(url) writes the index (lines
\* 126-136) and the call returns True
mark_as_seen ==
    \E w \in Workers :
      /\ workers[w].pc = "mark_as_seen"
      /\ _seen_urls' = _seen_urls \cup {_compute_cache_key(workers[w].url)}
      /\ cache_log' = [cache_log EXCEPT !.returned_true[workers[w].url] = @ + 1]
      /\ workers' = [workers EXCEPT ![w] = AfterAddUrl(workers[w], TRUE)]
      /\ UNCHANGED <<parserVars, _url_queue, chunker>>

\* a worker calls cache.get_next_url() (lines 138-148)
get_next_url ==
    \E w \in Workers :
      /\ workers[w].pc = "idle"
      /\ workers[w].ncalls < MaxCalls
      /\ IF _url_queue = <<>>
         THEN /\ workers' = [workers EXCEPT ![w] =
                               Worker("idle", "get_next_url", "", <<>>, 0, <<"None">>,
                                      workers[w].ncalls + 1)]
              /\ UNCHANGED <<_url_queue, cache_log>>
         ELSE /\ workers' = [workers EXCEPT ![w] =
                               Worker("idle", "get_next_url", "", <<>>, 0,
                                      <<"str", Head(_url_queue)>>, workers[w].ncalls + 1)]
              /\ _url_queue' = Tail(_url_queue)
              /\ cache_log' = [cache_log EXCEPT !.handed[Head(_url_queue)] = @ + 1]
      /\ UNCHANGED <<parserVars, _seen_urls, chunker>>

NextCache == add_url \/ add_urls \/ has_url \/ append \/ mark_as_seen \/ get_next_url
SpecCache == InitCache /\ [][NextCache]_vars

(***************************************************************************)
(* Chunking a text: chunk_text_by_char(text, max_chars, overlap_chars).    *)
(***************************************************************************)
Texts == SeqsUpTo({"a", " "}, MaxText)

InitChunk ==
    /\ InitWith({TestConfig}, {NoUrl})
    /\ html = <<>>
    /\ markdown = NoCall
    /\ article = NoArticle
    /\ NoCacheUse
    /\ chunker \in { Chunker("called", text, max_chars, overlap_chars, 0, 0, <<>>, <<>>) :
                       text \in Texts, max_chars \in 0..MaxChars,
                       overlap_chars \in 0..MaxOverlap }

\* lines 90-96: an empty text returns [] at once
chunk_text_by_char ==
    /\ chunker.pc = "called"
    /\ chunker' = [chunker EXCEPT !.pc = IF chunker.text = <<>> THEN "returned" ELSE "while"]
    /\ UNCHANGED <<parserVars, cacheVars>>

\* lines 98-111: the loop test holds and the body runs
WhileBody ==
    /\ chunker.pc = "while"
    /\ chunker.start_pos < Len(chunker.text)
    /\ Len(chunker.starts) < MaxIterations
    /\ LET Body(end_pos) ==
             chunker' = Iteration(chunker, end_pos,
                                  Slice(chunker.text, chunker.start_pos, end_pos))
       IN Body(Min(Len(chunker.text), chunker.start_pos + chunker.max_chars))
    /\ UNCHANGED <<parserVars, cacheVars>>

\* lines 98 and 113: the loop test fails and the chunks are returned
ReturnChunks ==
    /\ chunker.pc = "while"
    /\ chunker.start_pos >= Len(chunker.text)
    /\ chunker' = [chunker EXCEPT !.pc = "returned"]
    /\ UNCHANGED <<parserVars, cacheVars>>

NextChunk == chunk_text_by_char \/ WhileBody \/ ReturnChunks
SpecChunk == InitChunk /\ [][NextChunk]_vars
\* a call that has begun keeps running: the function is sequential code
\* that nothing suspends
SpecChunkLive == SpecChunk /\ WF_vars(NextChunk)

(***************************************************************************)
(* Properties.  They are stated over `calls`, the record of the            *)
(* _extract_element calls made, and say what a call had to do from the     *)
(* configuration, the document and the two query engines.                  *)
(***************************************************************************)
CallSet == {calls[n] : n \in 1..Len(calls)}

\* the chain of a selector; a bare string is a chain of one item
ChainOf(selector) ==
    IF selector.selector.form = "list" THEN selector.selector.items
    ELSE <<StrItem(selector.selector.query)>>

\* the elements of the working set of call c, in the order they were found
WorkingSet(c) == [i \in 1..Len(c.call.elements) |-> c.call.elements[i].node]

\* the chain item that produced the working set of c, when there is one
HasWinner(c) == c.call.elements # <<>>
WinnerIdx(c) == Len(c.call.outcomes)
Winner(c) == ParseItem(ChainOf(c.selector)[WinnerIdx(c)])

\* the record of running query `role` of chain item idx in call c
EntryOf(c, idx, role) ==
    c.call.log[CHOOSE i \in 1..Len(c.call.log) :
                 c.call.log[i].idx = idx /\ c.call.log[i].role = role]

\* an item whose selector_type is one of css, xpath, auto / with no query
Usable(item) == ParseItem(item).sel_type \in SelectorType
Skipped(item) == ParseItem(item).sel_query = NoQuery

\* what one chain item finds when it is tried by itself on the document
\* that call c started from
Alone(c, item) == TryItem(c.call.before, tree, ParseItem(item), c.selector.all, 0)

Yields(c, item) ==
    Usable(item) /\ ~Skipped(item) /\ Alone(c, item).outcome = "match"

YieldsNothing(c, item) ==
    Usable(item) /\ (Skipped(item) \/ Alone(c, item).outcome # "match")

\* malformed syntax in the query or the parent query, or no parent found
Broken(c, item) ==
    Usable(item) /\ ~Skipped(item) /\ Alone(c, item).outcome \in {"error", "noparent"}

\* the first element of a set in document order, NoElement for none
FirstOf(S) == IF S = {} THEN NoElement ELSE CHOOSE n \in S : \A m \in S : n <= m

\* the detection rule as the specification words it
ExpectedType(query, explicit) ==
    IF explicit \in {CSS, XPATH} THEN explicit
    ELSE IF StartsWith(Strip(query), "/") THEN XPATH
    ELSE CSS

\* C1: fallback chain, first success wins.  In every call, if the chain
\* items 1..k-1 each yield nothing (or are skipped) and item k yields a
\* match, the working set is exactly the matches of item k, the loop ran k
\* items, and no query or parent query of an item after k was executed;
\* for all = True and all = False alike.
FirstSuccessWins ==
    \A c \in CallSet :
      LET items == ChainOf(c.selector)
      IN \A k \in 1..Len(items) :
           ( /\ \A j \in 1..(k - 1) : YieldsNothing(c, items[j])
             /\ Yields(c, items[k]) )
           => /\ WorkingSet(c) = Alone(c, items[k]).found
              /\ Len(c.call.outcomes) = k
              /\ \A i \in 1..Len(c.call.log) :
                   c.call.log[i].role \in {"query", "parent"} => c.call.log[i].idx <= k

\* a chain [A, B, C] with all = True: A yields nothing, B yields a match,
\* and C would have matched other elements, but only A and B were run
FirstSuccessWinsWitness ==
    \E c \in CallSet :
      LET items == ChainOf(c.selector)
      IN /\ Len(items) = 3
         /\ c.selector.all
         /\ YieldsNothing(c, items[1])
         /\ Yields(c, items[2])
         /\ Yields(c, items[3])
         /\ Alone(c, items[3]).found # Alone(c, items[2]).found
         /\ c.call.outcomes = <<"nomatch", "match">>
         /\ ~c.call.result.none

\* C2: cleanup isolation.  For every field resolved by parse(), the value
\* resolved for it after the fields before it were resolved is the value
\* the field resolves to on the document as the constructor left it, with
\* no other field resolved.
CleanupIsolation ==
    \A n \in 1..Len(calls) :
      ~calls[n].call.raised
      => calls[n].call.result =
           _extract_element(calls[1].call.before, tree, calls[n].selector,
                            base_url).result

\* C3: fixed field order with content last.  When parse() has returned,
\* the call that resolved content is the last _extract_element call made.
ContentResolvedLast ==
    pc = "parsed"
    => /\ calls # <<>>
       /\ calls[Len(calls)].field = "content"

\* the language the parent query of the winning item of c was run in, and
\* the first element of the document that matches it in that language
ParentLang(c) == EntryOf(c, WinnerIdx(c), "parent").dtype
ParentByQuery(c) ==
    IF ParentLang(c) = CSS
    THEN FirstOf(CssSelect(PageView(c.call.before), DocNode, Winner(c).sel_parent).nodes)
    ELSE FirstOf(XPathEval(PageView(tree), RootEl, Winner(c).sel_parent).nodes)

GlobalCleanupCovers ==
    \A c \in CallSet :
      \A i \in 1..Len(WorkingSet(c)) : WorkingSet(c)[i] \notin hits

\* C6: selector type detection.  Every query, parent query and cleanup
\* query a call executes runs as css or xpath, never auto; a chain item's
\* query runs as its explicit type when that is css or xpath and else as
\* xpath iff the stripped query begins with "/"; a parent query is handed
\* the concrete type of its item and runs as that; a cleanup query is
\* handed auto and runs by the rule on its text.
DetectionRule ==
    \A c \in CallSet :
      \A i \in 1..Len(c.call.log) :
        LET e == c.call.log[i]
            it == ParseItem(ChainOf(c.selector)[e.idx])
        IN /\ e.dtype \in {CSS, XPATH}
           /\ e.role = "query"
              => e.dtype = ExpectedType(it.sel_query, it.sel_type)
           /\ e.role = "parent"
              => e.dtype = ExpectedType(e.query, ExpectedType(it.sel_query, it.sel_type))
           /\ e.role = "cleanup" => e.dtype = ExpectedType(e.query, AUTO)

\* a query with leading whitespace before its "/" and type auto ran as xpath
DetectionRuleWitness ==
    \E c \in CallSet :
      \E i \in 1..Len(c.call.log) :
        LET e == c.call.log[i]
            it == ParseItem(ChainOf(c.selector)[e.idx])
        IN /\ e.role = "query"
           /\ it.sel_type = AUTO
           /\ Strip(it.sel_query) # it.sel_query
           /\ e.dtype = XPATH
           /\ HasWinner(c)

\* C7: in every call, a parent query runs in the language detected from
\* the parent query's own text, whatever the type of the child query.
ParentTypeFromParentQuery ==
    \A c \in CallSet :
      \A i \in 1..Len(c.call.log) :
        c.call.log[i].role = "parent"
        => c.call.log[i].dtype = ExpectedType(c.call.log[i].query, AUTO)

\* every element the winning query of c matches, in document order
AllMatches(c) ==
    LET e == EntryOf(c, WinnerIdx(c), "query")
    IN IF e.dtype = CSS
       THEN SortedSeq(CssSelect(PageView(c.call.before), e.scope, e.query).nodes)
       ELSE SortedSeq(XPathEval(PageView(tree),
                                IF e.scope = NoElement THEN RootEl ELSE e.scope,
                                e.query).nodes)

\* the value of element n under the winning item of c, with no cleanup
ValueIn(c, n) ==
    _extract_value_from_element(
        c.call.before, tree, Elem(n, FALSE, {}),
        IF Winner(c).sel_attribute # NoAttr THEN Winner(c).sel_attribute
        ELSE c.selector.attribute,
        c.selector.type, EntryOf(c, WinnerIdx(c), "query").dtype # CSS, base_url)

\* C8: multiplicity.  A result that is not None is a list iff all = True.
\* With all = True it lists the values of all matches of the winning item
\* in document order (the matches without a value left out); with
\* all = False it is the value of the first match in document order.
\* (Values are compared for fields without a cleanup list.)
Multiplicity ==
    \A c \in CallSet :
      /\ ~c.call.result.none => (c.call.result.is_list <=> c.selector.all)
      /\ (HasWinner(c) /\ c.selector.cleanup = <<>>)
         => LET m == AllMatches(c)
                vals == [i \in 1..Len(m) |-> ValueIn(c, m[i])]
                kept == SelectSeq(vals, Truthy)
            IN /\ m # <<>>
               /\ IF c.selector.all
                  THEN c.call.result = IF kept = <<>> THEN NoResult ELSE List(kept)
                  ELSE c.call.result = IF Truthy(vals[1]) THEN Scalar(vals[1])
                                       ELSE NoResult

\* all = True over at least three matches that all have a value
MultiplicityWitness ==
    \E c \in CallSet :
      /\ HasWinner(c)
      /\ c.selector.all
      /\ c.selector.cleanup = <<>>
      /\ Len(AllMatches(c)) >= 3
      /\ c.call.result.is_list
      /\ Len(c.call.result.values) = Len(AllMatches(c))

\* C9: failures of one chain item are local.  In a call whose items all
\* have a known selector_type, nothing is raised; an item that is reached
\* and has malformed syntax in its query or parent query, or a parent
\* query that finds nothing, counts as an item without a match; the next
\* item is tried; and the first later item that yields a match gives the
\* working set.
FailuresAreLocal ==
    \A c \in CallSet :
      LET items == ChainOf(c.selector)
      IN (\A j \in 1..Len(items) : Usable(items[j]))
         => /\ ~c.call.raised
            /\ \A j \in 1..Len(items) :
                 ( /\ Broken(c, items[j])
                   /\ \A h \in 1..(j - 1) : ~Yields(c, items[h]) )
                 => /\ Len(c.call.outcomes) >= j
                    /\ c.call.outcomes[j] \in {"error", "noparent"}
                    /\ j < Len(items) => Len(c.call.outcomes) > j
                    /\ \A k \in (j + 1)..Len(items) :
                         ( /\ Yields(c, items[k])
                           /\ \A h \in (j + 1)..(k - 1) : ~Yields(c, items[h]) )
                         => WorkingSet(c) = Alone(c, items[k]).found

\* a chain of a malformed query, a query whose parent is not found and a
\* valid query: the call returns the value of the third
FailuresAreLocalWitness ==
    \E c \in CallSet :
      LET items == ChainOf(c.selector)
      IN /\ Len(items) = 3
         /\ \A j \in 1..3 : Usable(items[j]) /\ ~Skipped(items[j])
         /\ Alone(c, items[1]).outcome = "error"
         /\ Alone(c, items[2]).outcome = "noparent"
         /\ Yields(c, items[3])
         /\ c.call.outcomes = <<"error", "noparent", "match">>
         /\ ~c.call.raised
         /\ ~c.call.result.none

\* C10: attribute extraction mode.  In a call of a field whose type is
\* "attribute", every value returned is an attribute value, never the
\* text or the markup of an element.
AttributeModeNeedsName ==
    \A c \in CallSet :
      c.selector.type = "attribute"
      => \A i \in 1..Len(c.call.result.values) :
           c.call.result.values[i].kind = "attr"

\* the calls parse() made for field f
CallsOf(f) == {c \in CallSet : c.field = f}

\* a value parse() may return for a field: a non-empty string, or a
\* non-empty list of non-empty strings
FullValue(v) ==
    /\ v # NoKey
    /\ ~v.none
    /\ v.values # <<>>
    /\ ~v.is_list => Len(v.values) = 1
    /\ \A i \in 1..Len(v.values) : Truthy(v.values[i])

\* C11: absence is data.  A call whose chain items all found nothing
\* (no match, malformed, parent missing, skipped) does not raise and
\* returns None; and when parse() has returned, parsed_data has a key for
\* a field iff the field is configured and its call returned a value, and
\* every value it holds is a non-empty string or a non-empty list of
\* non-empty strings.
AbsenceIsData ==
    /\ \A c \in CallSet :
         (\A j \in 1..Len(ChainOf(c.selector)) : YieldsNothing(c, ChainOf(c.selector)[j]))
         => ~c.call.raised /\ c.call.result = NoResult
    /\ pc = "parsed"
       => \A f \in SelectorFields :
            /\ parsed_data[f] # NoKey
               <=> /\ config[f].kind = "ElementSelector"
                   /\ \E c \in CallsOf(f) : ~c.call.result.none
            /\ parsed_data[f] # NoKey
               => /\ FullValue(parsed_data[f])
                  /\ \E c \in CallsOf(f) : parsed_data[f] = c.call.result

\* parse() returned: content is there, and another configured field,
\* whose query matched nothing, is not
AbsenceIsDataWitness ==
    /\ pc = "parsed"
    /\ parsed_data["content"] # NoKey
    /\ \E f \in SelectorFields :
         /\ config[f].kind = "ElementSelector"
         /\ parsed_data[f] = NoKey
         /\ \E c \in CallsOf(f) : c.call.outcomes = <<"nomatch">>

\* the config object {query: q} with nothing else set
DefaultObject(q) == DictItem(q, AUTO, NoAttr, NoQuery)

\* the three ways to write the one query q as ElementSelector.selector
Forms(q) ==
    {StrSelector(q), ListSelector(<<StrItem(q)>>), ListSelector(<<DefaultObject(q)>>)}

\* a list of items with every bare string written as its default object
AsObjects(items) ==
    [i \in 1..Len(items) |->
       IF items[i].form = "str" THEN DefaultObject(items[i].query) ELSE items[i]]

\* the other ways to write selector value sel
OtherForms(sel) ==
    IF sel.form = "str" THEN Forms(sel.query)
    ELSE {ListSelector(AsObjects(sel.items))}
         \cup IF Len(sel.items) = 1 /\ AsObjects(sel.items)[1] = DefaultObject(sel.items[1].query)
              THEN Forms(sel.items[1].query)
              ELSE {}

\* C12: selector shorthand is uniform.  Whatever a call did for a field
\* (its result, whether it raised, the document it left), the same field
\* with its selector written in another of the equivalent forms (bare
\* string, one-element list of the string, one-element list of {query},
\* a list of strings as the list of their default objects) does the same
\* on the same document.
ShorthandUniform ==
    \A c \in CallSet :
      \A other \in OtherForms(c.selector.selector) :
        LET r == _extract_element(c.call.before, tree,
                                  [c.selector EXCEPT !.selector = other], base_url)
        IN /\ r.result = c.call.result
           /\ r.raised = c.call.raised
           /\ r.soup = c.call.soup
           /\ r.elements = c.call.elements

\* a field given as a bare XPath string, with all = True and a cleanup
\* list, returned a value
ShorthandUniformWitness ==
    \E c \in CallSet :
      /\ c.selector.selector.form = "str"
      /\ StartsWith(c.selector.selector.query, "/")
      /\ c.selector.all
      /\ c.selector.cleanup # <<>>
      /\ ~c.call.result.none
      /\ ListSelector(<<DefaultObject(c.selector.selector.query)>>)
           \in OtherForms(c.selector.selector)

\* the set of the elements of a sequence
Range(seq) == {seq[i] : i \in 1..Len(seq)}

SuppressedTags == {"script", "style", "noscript", "iframe"}

RECURSIVE TextTokens(_, _, _)
\* the tokens of the text nodes at or under `node` that lie inside
\* (want = TRUE) or outside (want = FALSE) a suppressed element
TextTokens(node, inside, want) ==
    IF node.name = "#text"
    THEN IF inside = want THEN Range(node.text) ELSE {}
    ELSE UNION { TextTokens(node.children[i], inside \/ node.name \in SuppressedTags, want) :
                   i \in 1..Len(node.children) }

\* the text that occurs only inside suppressed elements of the fragment
HiddenOnly(fragment) ==
    UNION { TextTokens(fragment[i], FALSE, TRUE) : i \in 1..Len(fragment) }
    \ UNION { TextTokens(fragment[i], FALSE, FALSE) : i \in 1..Len(fragment) }

\* C14: script/style suppression.  Each script, style, noscript and iframe
\* element converts to the empty string whatever it holds, so html_to_markdown
\* returns a string in which no text occurs that the fragment holds only
\* inside such an element, and <div><script>x()</script>Hello</div>
\* converts to Hello.
ScriptStyleSuppression ==
    /\ markdown.call = "html_to_markdown" =>
         /\ ~markdown.out.raised
         /\ Range(markdown.out.value) \cap HiddenOnly(html) = {}
         /\ html = <<Tag("div", NoAttrs, <<Payload("script"), NavigableString(T_hello)>>)>>
              => markdown.out.value = T_hello
    /\ markdown.call # "" /\ markdown.tag.name \in SuppressedTags =>
         markdown.out = Markdown(FALSE, "", <<>>)

\* an absolute http(s) URL with a safe image extension
SafeImageUrl(url) ==
    /\ url # <<>>
    /\ Head(url) \in {"http", "https"}
    /\ \E i \in 1..Len(url) : url[i] \in {".webp", ".jpg", ".jpeg", ".png"}

\* the attributes an image source is resolved from
SrcAttrs == {"src", "data_original", "data_src", "srcset"}

\* the URLs of the images in a string: what follows "](" in ![alt](url
ImageUrlHeads(s) ==
    { s[i + 1] : i \in { j \in 1..(Len(s) - 1) :
                           /\ s[j] = "]("
                           /\ \E k \in 1..j : s[k] = "![" } }

\* C15: image URL safety.  An img produces image markup only when its
\* resolved src is an absolute http(s) URL with a safe image extension;
\* otherwise it emits nothing (a fragment that is only that img converts to
\* the empty string), and no image URL in the output starts with anything
\* but http.
ImageUrlSafety ==
    /\ markdown.call = "Img" =>
         /\ ~markdown.out.raised
         /\ (\E k \in 1..Len(markdown.out.value) : markdown.out.value[k] = "![")
              => \E a \in SrcAttrs : SafeImageUrl(markdown.tag.attrs[a])
         /\ (\A a \in SrcAttrs : ~SafeImageUrl(markdown.tag.attrs[a]))
              => markdown.out.value = <<>>
         /\ ImageUrlHeads(markdown.out.value) \subseteq {"http", "https"}
    /\ markdown.call = "html_to_markdown" =>
         /\ ~markdown.out.raised
         /\ ImageUrlHeads(markdown.out.value) \subseteq {"http", "https"}
         /\ ( /\ Len(html) = 1 /\ html[1].name = "img"
              /\ \A a \in SrcAttrs : ~SafeImageUrl(html[1].attrs[a]) )
              => markdown.out.value = <<>>

\* what a link target must not begin with
ScriptFragmentRoot == {"javascript", "/", "#"}

\* the targets of the links in a string: what follows "](" in [text](href)
LinkTargetHeads(s) == { s[i + 1] : i \in { j \in 1..(Len(s) - 1) : s[j] = "](" } }

UnknownTagPassThrough ==
    markdown.call = "html_to_markdown" =>
      /\ ~markdown.out.raised
      /\ Len(html) = 1 /\ html[1].name \notin DOMAIN TAG_HELPER_MAP
           => markdown.out.value
                = PyStrip(decode_tag(ProcessChildren(html[1].children, 1)))

\* s holds n consecutive tokens tok
HasRun(s, tok, n) ==
    \E i \in 1..(Len(s) - n + 1) : \A j \in i..(i + n - 1) : s[j] = tok

\* C18: the final pass collapses blank lines.  For every fragment
\* html_to_markdown returns a string, and the string never holds three or
\* more consecutive newlines, however many block elements are adjacent or
\* nested in the fragment.
BlankLinesCollapsed ==
    markdown.call = "html_to_markdown" =>
      /\ ~markdown.out.raised
      /\ ~HasRun(markdown.out.value, "\n", 3)
      /\ ~HasRun(PyStrip(decode_tag(convert(html))), "\n", 3)

\* how many tokens tok the string s holds
Count(s, tok) == Cardinality({ i \in 1..Len(s) : s[i] = tok })

\* C19: source whitespace never drives layout.  html_to_markdown returns a
\* string with no run of two or more spaces and no tab or carriage return,
\* and every newline of it comes from the prefix or suffix of a tag (a
\* BreakTag of the conversion), never from a text node of the fragment.
SourceWhitespaceNormalized ==
    markdown.call = "html_to_markdown" =>
      /\ ~markdown.out.raised
      /\ ~HasRun(markdown.out.value, " ", 2)
      /\ Count(markdown.out.value, "\t") = 0
      /\ Count(markdown.out.value, "\r") = 0
      /\ Count(markdown.out.value, "\n") <= Count(convert(html), BreakTag)
      /\ Count(PyStrip(decode_tag(convert(html))), "\n") <= Count(convert(html), BreakTag)

(***************************************************************************)
(* Properties of the metadata.                                             *)
(***************************************************************************)
ArticleTypes == {"NewsArticle", "Article", "WebPage"}

\* the JSON-LD blocks of the page that are article-shaped nodes
ArticleNodes(page) ==
    SelectSeq(page.scripts, LAMBDA block : block.kind = "json" /\ block.type \in ArticleTypes)

\* C20: Schema.org is the metadata fallback.  When the meta tags of a page
\* give no title (no published date), the title (published date) of the
\* article is the headline (datePublished) of the first valid JSON-LD
\* NewsArticle/Article/WebPage node; when the meta tags give the field, the
\* article keeps the meta-tag value.
SchemaOrgFallback ==
    (article.called /\ article.error = NoStr) =>
      /\ Or(html.og_title, html.twitter_title) # NoStr
           => article.title = Or(html.og_title, html.twitter_title)
      /\ html.published_time # NoStr
           => article.published_at = "datetime(2023, 1, 1, 12, 0)"
      /\ ( /\ Or(html.og_title, html.twitter_title) = NoStr
           /\ ArticleNodes(html) # <<>>
           /\ Head(ArticleNodes(html)).headline # NoStr )
           => article.title = Head(ArticleNodes(html)).headline
      /\ ( /\ html.published_time = NoStr
           /\ ArticleNodes(html) # <<>>
           /\ Head(ArticleNodes(html)).datePublished # NoStr )
           => article.published_at = "datetime(2023, 1, 2, 12, 0)"

(***************************************************************************)
(* Properties of the assembled article.                                    *)
(***************************************************************************)
\* the article from_html returned
ArticleReturned == article.called /\ article.error = NoStr

\* C21: merge priority parser config > meta tags > defaults.  For title,
\* description, authors, date_published, date_modified, tags and topics:
\* when the selectors produced a value the article carries that value and
\* not the one of the meta tags; the meta-tag value is used only when the
\* selectors produced none.
MergePriority ==
    ArticleReturned =>
      /\ article.title = IF article.parsed.title # NoStr THEN article.parsed.title
                         ELSE Or(get_metadata(html).title, "No title found")
      /\ article.description = Or(article.parsed.description, get_metadata(html).description)
      /\ article.authors = IF article.parsed.authors # <<>> THEN article.parsed.authors
                           ELSE IF get_metadata(html).author # NoStr
                           THEN <<get_metadata(html).author>> ELSE <<>>
      /\ article.published_at = IF article.parsed.date_published # NoStr
                                THEN normalize_datetime(article.parsed.date_published)
                                ELSE get_metadata(html).date_published
      /\ article.modified_at = IF article.parsed.date_modified # NoStr
                               THEN normalize_datetime(article.parsed.date_modified)
                               ELSE get_metadata(html).date_modified
      /\ article.tags = IF article.parsed.tags # <<>> THEN article.parsed.tags
                        ELSE get_metadata(html).tags
      /\ article.topics = IF article.parsed.topics # <<>> THEN article.parsed.topics
                          ELSE get_metadata(html).topics

\* the content from_html obtained is absent or empty: the content field of
\* the parser config gave nothing, or the main/article/body fallback did
NoContent ==
    IF article.parsed.has_config THEN Content(html, article.parsed) \in {NoStr, " "}
    ELSE html.body \in {NoStr, " "}

\* C22: missing content is the one terminal failure.  Article.from_html
\* raises ArticleCreationError whenever the html is empty or whitespace-only
\* and whenever the content obtained is absent or empty, raises no other
\* exception type in these cases, and never returns an Article whose
\* content is empty.
MissingContentIsTerminal ==
    article.called =>
      /\ (html.raw \in {NoStr, " "} \/ NoContent) => article.error = "ArticleCreationError"
      /\ article.error = NoStr => article.content # NoStr

\* the page without its JSON-LD blocks
WithoutScripts(page) == [page EXCEPT !.scripts = <<>>]

\* the positions of the JSON-LD blocks of the page that are valid JSON
ValidBlocks(page) == {i \in 1..Len(page.scripts) : page.scripts[i].kind = "json"}

CleanupMatches(c, cleanup_sel) ==
    IF _detect_selector_type(cleanup_sel, AUTO) = CSS
    THEN CssSelect(PageView(c.call.before), DocNode, cleanup_sel).nodes
    ELSE XPathEval(PageView(c.call.before), RootEl, cleanup_sel).nodes

\* no cleanup selector of the field matches an element at or under an
\* element of the working set
NothingToPrune(c) ==
    \A k \in 1..Len(c.call.elements), i \in 1..Len(c.selector.cleanup) :
      CleanupMatches(c, c.selector.cleanup[i]) \cap Subtree(c.call.elements[k].node) = {}

\* C24: per-field cleanup only prunes.  When no cleanup selector of a
\* field matches anything under its matched elements, the call returns
\* what it returns for the same field without a cleanup list: for text,
\* html and attribute, and for elements matched by CSS and by XPath; the
\* value is read from the matched element and not from a wrapper of it.
CleanupOnlyPrunes ==
    \A c \in CallSet :
      (c.selector.cleanup # <<>> /\ ~c.call.raised /\ NothingToPrune(c))
      => c.call.result
           = _extract_element(c.call.before, tree, [c.selector EXCEPT !.cleanup = <<>>],
                              base_url).result

\* the attribute name resolved for the elements chain item `item` finds
AttrToExtract(c, item) ==
    IF ParseItem(item).sel_attribute # NoAttr THEN ParseItem(item).sel_attribute
    ELSE c.selector.attribute

\* no element that `item` matches has a value to give: the attribute asked
\* for is missing on all of them
Valueless(c, item) ==
    /\ AttrToExtract(c, item) # NoAttr
    /\ \A n \in Range(Alone(c, item).found) : Attr(n, AttrToExtract(c, item)) = NoAttr

\* C25: the chain stops on matches, not on values.  If the first chain
\* item that matches an element yields no value from any element it
\* matches, the call returns None and no later item is tried: the loop
\* ran up to that item and no query or parent query of a later item was
\* executed.
ChainStopsOnMatches ==
    \A c \in CallSet :
      LET items == ChainOf(c.selector)
      IN \A k \in 1..Len(items) :
           ( /\ \A j \in 1..(k - 1) : YieldsNothing(c, items[j])
             /\ Yields(c, items[k])
             /\ Valueless(c, items[k]) )
           => /\ ~c.call.raised
              /\ c.call.result.none
              /\ Len(c.call.outcomes) = k
              /\ \A i \in 1..Len(c.call.log) :
                   c.call.log[i].role \in {"query", "parent"} => c.call.log[i].idx <= k

\* a chain whose first item matches an element without href and whose
\* second item matches elements that have one: the call returned None and
\* ran the first item only
ChainStopsOnMatchesWitness ==
    \E c \in CallSet :
      LET items == ChainOf(c.selector)
      IN /\ Len(items) >= 2
         /\ Yields(c, items[1])
         /\ Valueless(c, items[1])
         /\ Yields(c, items[2])
         /\ ~Valueless(c, items[2])
         /\ c.call.outcomes = <<"match">>
         /\ c.call.result.none

\* the elements of the working set of c that carry attribute a
Carrying(c, a) == SelectSeq(WorkingSet(c), LAMBDA n : Attr(n, a) # NoAttr)

\* the value of attribute a of element n, an href joined to the base URL
AttrValue(n, a) ==
    Value("attr", <<Attr(n, a)>>, DocNode, {}, FALSE, IF a = "href" THEN base_url ELSE NoUrl)

\* what a call returns when every element gives its attribute a
AttrResult(c, a) ==
    IF Carrying(c, a) = <<>> THEN NoResult
    ELSE IF c.selector.all
    THEN List([i \in 1..Len(Carrying(c, a)) |-> AttrValue(Carrying(c, a)[i], a)])
    ELSE Scalar(AttrValue(Carrying(c, a)[1], a))

\* C26: a resolved attribute name takes precedence over the extraction
\* type.  Whenever the attribute of the winning chain item or the default
\* attribute of the field is set, the value of each matched element is the
\* value of that attribute, or no value when the element lacks it, for the
\* types text, html and attribute; text or markup is returned only when no
\* attribute name is set.
AttributeOverType ==
    \A c \in CallSet :
      (~c.call.raised /\ HasWinner(c))
      => LET a == AttrToExtract(c, ChainOf(c.selector)[WinnerIdx(c)])
         IN /\ a # NoAttr => c.call.result = AttrResult(c, a)
            /\ \A i \in 1..Len(c.call.result.values) :
                 c.call.result.values[i].kind \in {"text", "html"} => a = NoAttr

(***************************************************************************)
(* Properties of the image source.                                         *)
(***************************************************************************)
\* the attributes of an img in the order its source is looked for
SrcPriority == <<"src", "data_original", "data_src", "srcset">>

\* the first attribute in that order that holds a safe image URL
FirstSafe(attrs) ==
    CHOOSE i \in 1..Len(SrcPriority) :
      /\ SafeImageUrl(attrs[SrcPriority[i]])
      /\ \A j \in 1..(i - 1) : ~SafeImageUrl(attrs[SrcPriority[j]])

\* the URL of the image markup in a string: what stands between "](" and
\* the next ")" or " "
RECURSIVE UrlFrom(_, _)
UrlFrom(s, i) ==
    IF i > Len(s) \/ s[i] \in {")", " "} THEN <<>> ELSE <<s[i]>> \o UrlFrom(s, i + 1)
ImageUrl(s) ==
    IF \E i \in 1..Len(s) : s[i] = "]("
    THEN UrlFrom(s, 1 + CHOOSE i \in 1..Len(s) : s[i] = "](" /\ \A j \in 1..(i - 1) : s[j] # "](")
    ELSE <<>>

\* C27: image source priority.  The source of an img is its src when
\* usable, else the lazy-load attributes in the order data-original,
\* data-src, srcset: whenever one of the four holds an absolute http(s) URL
\* with a safe image extension, the img converts to image markup with the
\* first such attribute in that order, whatever unsafe value stands in an
\* attribute before it.
ImageSourcePriority ==
    (markdown.call = "Img" /\ \E a \in SrcAttrs : SafeImageUrl(markdown.tag.attrs[a]))
    => /\ ~markdown.out.raised
       /\ \E k \in 1..Len(markdown.out.value) : markdown.out.value[k] = "!["
       /\ ImageUrl(markdown.out.value) = markdown.tag.attrs[SrcPriority[FirstSafe(markdown.tag.attrs)]]

(***************************************************************************)
(* Properties of the two query engines as backends.                        *)
(***************************************************************************)
\* the working set of c as the other engine would have handed it on: the
\* same elements, matched by XPath where CSS matched them and by CSS where
\* XPath did
OtherEngine(c) ==
    [k \in 1..Len(c.call.elements) |->
       [c.call.elements[k] EXCEPT !.is_lxml = ~c.call.elements[k].is_lxml]]

\* what the call returns for that working set
OtherEngineResult(c) ==
    Returned(c.call.before, c.selector, [elements |-> OtherEngine(c), log |-> <<>>,
                                         outcomes |-> c.call.outcomes, raised |-> FALSE],
             ExtractLoop(c.call.before, tree, OtherEngine(c), 1, c.selector, base_url,
                         <<>>, <<>>)).result

RECURSIVE CollapseWs(_)
\* runs of whitespace made one space
CollapseWs(s) ==
    IF s = <<>> THEN <<>>
    ELSE IF Head(s) \in Whitespace
    THEN <<" ">> \o CollapseWs(SkipWhile(s, Whitespace))
    ELSE <<Head(s)>> \o CollapseWs(Tail(s))

\* the visible text of element n with its whitespace collapsed
VisibleText(c, n) ==
    PyStrip(CollapseWs(Concat(SortedSeq(c.call.before \cap Subtree(n)), FALSE)))

\* C28: CSS and XPath are interchangeable backends.  When both select the
\* same elements of the same document, the call returns the same value
\* for every extraction type whichever engine matched them, and in text
\* mode the value of an element is its visible text with internal
\* whitespace collapsed.
EnginesInterchangeable ==
    \A c \in CallSet :
      (~c.call.raised /\ HasWinner(c) /\ c.call.before = tree)
      => /\ OtherEngineResult(c) = c.call.result
         /\ ( /\ c.selector.type = "text" /\ c.selector.cleanup = <<>>
              /\ AttrToExtract(c, ChainOf(c.selector)[WinnerIdx(c)]) = NoAttr
              /\ ~c.selector.all /\ ~c.call.result.none )
              => \E k \in 1..Len(c.call.elements) :
                   c.call.result.values[1].toks = VisibleText(c, c.call.elements[k].node)

(***************************************************************************)
(* Properties of the cache.                                                *)
(***************************************************************************)
\* C29: ScraperCache never queues a URL twice.  Whatever add_url, add_urls
\* and get_next_url calls the workers sharing the cache make, and however
\* their steps interleave, every URL is appended to the queue at most
\* once, add_url returns True for the call that appended it and for no
\* other, and a URL that get_next_url has handed out is not queued again.
NeverQueuedTwice ==
    \A u \in Urls :
      /\ cache_log.appended[u] <= 1
      /\ cache_log.returned_true[u] <= cache_log.appended[u]
      /\ cache_log.handed[u] <= 1
      /\ u \notin cache_log.requeued

(***************************************************************************)
(* Properties of chunk_text_by_char.                                       *)
(***************************************************************************)
\* start_pos has grown with every iteration made so far
WindowAdvances ==
    /\ \A i, j \in 1..Len(chunker.starts) : i < j => chunker.starts[i] < chunker.starts[j]
    /\ chunker.starts # <<>> => chunker.starts[Len(chunker.starts)] < chunker.start_pos

\* the chunks carry the indices 0, 1, 2, ... and none is longer than
\* max_chars
ChunksWellFormed ==
    \A i \in 1..Len(chunker.chunks) :
      /\ chunker.chunks[i].index = i - 1
      /\ chunker.chunks[i].char_length <= chunker.max_chars

\* C30: chunk_text_by_char always terminates.  For every text and all
\* max_chars >= 0 and overlap_chars >= 0, overlap_chars >= max_chars
\* included, start_pos strictly increases with every iteration of the loop,
\* so that the call returns after finitely many iterations, and the chunks
\* it returns carry consecutive indices from 0 and are at most max_chars
\* characters long.
ChunkingTerminates ==
    /\ [](WindowAdvances /\ ChunksWellFormed)
    /\ <>(chunker.pc = "returned")

====
